---- MODULE Spec2Model ----
(***************************************************************************)
(* A model of dipy.reconst.dki (diffusion kurtosis imaging): the Tabesh    *)
(* coefficient functions, the kurtosis-tensor rotation, the scalar         *)
(* kurtosis metrics, the kurtosis-maximum search and the life cycle of     *)
(* DiffusionKurtosisModel.                                                 *)
(*                                                                         *)
(* Numbers.  TLC has integers only, so the floating-point values of the    *)
(* program are modelled in fixed point:                                    *)
(*   - a dimensionless real v (a kurtosis value, a ratio of eigenvalues,   *)
(*     a Carlson integral) is the integer floor(v * FP);                   *)
(*   - a diffusion eigenvalue is an integer number of units of 0.5e-7, so  *)
(*     that the positivity threshold 2e-7 of _positive_evals is PosEr = 4  *)
(*     and the averages (a + b) / 2 the F-functions take of two            *)
(*     eigenvalues are exact for the even inputs the model draws.          *)
(* The branches, the masks, the gates and the clips of the program are     *)
(* exact in this arithmetic; the digits of a value computed by a generic   *)
(* branch are those of the fixed-point evaluation, which is ill            *)
(* conditioned where two eigenvalues nearly coincide, and no property      *)
(* below rests on them.                                                    *)
(*                                                                         *)
(* Values.  Python's None is the empty set and any other optional value x  *)
(* is Some(x) = {x}; a dictionary is a function on its keys; a string      *)
(* whose characters matter is the sequence of its characters.              *)
(***************************************************************************)
EXTENDS Integers, Sequences, FiniteSets, TLC

FP == 10 ^ 3

\* An optional number: None, or Some(x) holding the number x.
None == {}

Some(x) == {x}

Val(o) == CHOOSE x \in o : TRUE

\* A float that is not a number; the other floats are Some(v).
NaN == {}

\* An exception raised, or None.
Raise(e) == Some(e)

\* ndarray.clip(min=lo) and ndarray.clip(max=hi) of one element.
ClipMin(x, lo) == IF x < lo THEN lo ELSE x

ClipMax(x, hi) == IF x > hi THEN hi ELSE x

\* With(e, LAMBDA x : body) is body with x bound to the value of e, which
\* is computed once: an assignment to a local of the program.
With(e, F(_)) == CHOOSE v \in {F(x) : x \in {e}} : TRUE

Abs(x) == IF x < 0 THEN -x ELSE x

Max2(x, y) == IF x >= y THEN x ELSE y

Min2(x, y) == IF x <= y THEN x ELSE y

\* Division rounded towards minus infinity, for a divisor of either sign.
Div(a, b) == IF b > 0 THEN a \div b ELSE (-a) \div (-b)

\* Fixed-point product and quotient.
FMul(a, b) == (a * b) \div FP

FDiv(a, b) == Div(a * FP, b)

RECURSIVE ISqrtIter(_, _)
ISqrtIter(n, x) ==
    With((x + n \div x) \div 2, LAMBDA y :
    IF y >= x THEN x ELSE ISqrtIter(n, y))

\* floor(sqrt(n)) of a natural number n.
ISqrt(n) == IF n <= 0 THEN 0 ELSE ISqrtIter(n, n)

\* np.sqrt of a fixed-point value.
FSqrt(x) == ISqrt(x * FP)

RECURSIVE Pow4(_)
Pow4(n) == IF n = 0 THEN 1 ELSE 4 * Pow4(n - 1)

\* sum_{k >= 0} sign^k u^k / (2k + 1) in fixed point, for 0 <= u < 1, taken
\* until the power u^k vanishes: arctanh(s) / s for sign = 1 and
\* arctan(s) / s for sign = -1, with u = s^2.
RECURSIVE OddSeries(_, _, _, _)
OddSeries(u, pw, k, sign) ==
    IF pw = 0 THEN 0
    ELSE (IF sign = -1 /\ k % 2 = 1 THEN -1 ELSE 1) * (pw \div (2 * k + 1))
         + OddSeries(u, FMul(pw, u), k + 1, sign)

\* np.arctanh(np.sqrt(x)) / np.sqrt(x) for 0 < x < 1.
ArctanhOverRoot(x) == OddSeries(x, FP, 0, 1)

\* np.arctan(np.sqrt(y)) / np.sqrt(y) for y > 0, through the half-angle
\* identity arctan(s) = 2 arctan(s / (1 + sqrt(1 + s^2))).
ArctanOverRoot(y) ==
    With(FP + FSqrt(FP + y), LAMBDA d :
    With(FDiv(FSqrt(y), d), LAMBDA t :
    FDiv(2 * OddSeries(FMul(t, t), FP, 0, -1), d)))

(***************************************************************************)
(* _positive_evals: all three eigenvalues above er = 2e-7.                 *)
(***************************************************************************)
PosEr == 4

_positive_evals(L1, L2, L3) == L1 > PosEr /\ L2 > PosEr /\ L3 > PosEr

(***************************************************************************)
(* carlson_rf: Carlson's incomplete elliptic integral of the first kind,   *)
(* for one array element (the code converges voxel by voxel).              *)
(***************************************************************************)
\* (3.0 * errtol) ** (-1 / 6.0) for errtol = 3e-4, in fixed point.
RfQFactor == 3218

\* An = (xn + yn + zn) / 3.0 in carlson_rf, A0 = (xn + yn + 3.0 * zn) / 5.0
\* in carlson_rd.
CarlsonA0(fn, x, y, z) ==
    IF fn = "carlson_rf" THEN (x + y + z) \div 3 ELSE (x + y + 3 * z) \div 5

\* Q with the deviations taken from zero and not from An.
CarlsonQ_from_zero(factor, A0, x, y, z) ==
    FMul(factor, Max2(Abs(x), Max2(Abs(y), Abs(z))))

\* Q = factor * np.max(np.abs([An - xn, An - yn, An - zn])).
CarlsonQ(factor, A0, x, y, z) ==
    FMul(factor, Max2(Abs(A0 - x), Max2(Abs(A0 - y), Abs(A0 - z))))

\* The convergence condition of both duplication loops:
\* 4.0 ** (-n) * Q > abs(An).
CarlsonCond(An, Q, n) == Q > Abs(An) * Pow4(n)

\* One pass of the body of both loops on xn, yn, zn and An; den is the
\* divisor znroot * (zn + lamda) of the term carlson_rd adds to sum_term.
CarlsonPass(xn, yn, zn, An) ==
    With(FSqrt(xn), LAMBDA xnroot :
    With(FSqrt(yn), LAMBDA ynroot :
    With(FSqrt(zn), LAMBDA znroot :
    With(FMul(xnroot, ynroot + znroot) + FMul(ynroot, znroot), LAMBDA lamda :
    [xn |-> (xn + lamda) \div 4, yn |-> (yn + lamda) \div 4,
     zn |-> (zn + lamda) \div 4, An |-> (An + lamda) \div 4,
     den |-> FMul(znroot, zn + lamda)]))))

\* The duplication loop: while 4.0 ** (-n) * Q > abs(An).
RECURSIVE RfLoop(_, _, _, _, _, _)
RfLoop(xn, yn, zn, An, Q, n) ==
    IF CarlsonCond(An, Q, n)
    THEN With(CarlsonPass(xn, yn, zn, An), LAMBDA s :
         RfLoop(s.xn, s.yn, s.zn, s.An, Q, n + 1))
    ELSE [xn |-> xn, yn |-> yn, zn |-> zn, An |-> An, n |-> n]

\* The post convergence calculation of carlson_rf.
RfPost(xn, yn, zn, An) ==
    With(FP - FDiv(xn, An), LAMBDA X :
    With(FP - FDiv(yn, An), LAMBDA Y :
    With(-X - Y, LAMBDA Z :
    With(FMul(X, Y) - FMul(Z, Z), LAMBDA E2 :
    With(FMul(FMul(X, Y), Z), LAMBDA E3 :
    [X |-> X, Y |-> Y, Z |-> Z, E2 |-> E2, E3 |-> E3,
     RF |-> FMul(FDiv(FP, FSqrt(An)),
                 FP - E2 \div 10 + E3 \div 14 + FMul(E2, E2) \div 24
                    - (3 * FMul(E2, E3)) \div 44)])))))

carlson_rf(x, y, z) ==
    With(CarlsonA0("carlson_rf", x, y, z), LAMBDA A0 :
    With(CarlsonQ(RfQFactor, A0, x, y, z), LAMBDA Q :
    With(RfLoop(x, y, z, A0, Q, 0), LAMBDA r :
    RfPost(r.xn, r.yn, r.zn, r.An).RF)))

(***************************************************************************)
(* carlson_rd: Carlson's incomplete elliptic integral of the second kind.  *)
(***************************************************************************)
\* (errtol / 4.0) ** (-1 / 6.0) for errtol = 1e-4, in fixed point.
RdQFactor == 5848

RECURSIVE RdLoop(_, _, _, _, _, _, _)
RdLoop(xn, yn, zn, An, Q, n, sum_term) ==
    IF CarlsonCond(An, Q, n)
    THEN With(CarlsonPass(xn, yn, zn, An), LAMBDA s :
         RdLoop(s.xn, s.yn, s.zn, s.An, Q, n + 1,
                sum_term + FDiv(FP, s.den) \div Pow4(n)))
    ELSE [xn |-> xn, yn |-> yn, zn |-> zn, An |-> An, n |-> n,
          sum_term |-> sum_term]

carlson_rd(x, y, z) ==
    With(CarlsonA0("carlson_rd", x, y, z), LAMBDA A0 :
    With(CarlsonQ(RdQFactor, A0, x, y, z), LAMBDA Q :
    With(RdLoop(x, y, z, A0, Q, 0, 0), LAMBDA r :
    With(FDiv(A0 - x, Pow4(r.n) * r.An), LAMBDA X :
    With(FDiv(A0 - y, Pow4(r.n) * r.An), LAMBDA Y :
    With(-((X + Y) \div 3), LAMBDA Z :
    With(FMul(X, Y), LAMBDA XY :
    With(FMul(Z, Z), LAMBDA ZZ :
    With(XY - 6 * ZZ, LAMBDA E2 :
    With(FMul(3 * XY - 8 * ZZ, Z), LAMBDA E3 :
    With(3 * FMul(XY - ZZ, ZZ), LAMBDA E4 :
    With(FMul(XY, FMul(ZZ, Z)), LAMBDA E5 :
    FMul(FDiv(FP, FMul(r.An, FSqrt(r.An))),
         FP - (3 * E2) \div 14 + E3 \div 6 + (9 * FMul(E2, E2)) \div 88
            - (3 * E4) \div 22 - (9 * FMul(E2, E3)) \div 52
            + (3 * E5) \div 26) \div Pow4(r.n)
    + 3 * r.sum_term))))))))))))

\* The ratio L1 / L2 of two eigenvalues, in fixed point.
Ratio(L1, L2) == Div(L1 * FP, L2)

\* num / np.sqrt(L2 * L3), in the scale of num.
OverSqrtProd(num, L2, L3) == Div(num * 10 ^ 2, ISqrt(L2 * L3 * 10 ^ 4))

(***************************************************************************)
(* _F2m: the function F2 of the analytical mean kurtosis.  The code builds *)
(* F2 = 0 and overwrites it under each mask cond1, cond2, cond3 in turn;   *)
(* F2mCond(k, ...) is the mask condk for one array element.                *)
(***************************************************************************)
\* 1 / er for er = 2.5e-2: abs(b - c) > b * er is FErInv * abs(b - c) > b.
FErInv == 40

F2mCond(k, a, b, c) ==
    /\ _positive_evals(a, b, c)
    /\ CASE k = 1 -> FErInv * Abs(b - c) > b
          [] k = 2 -> FErInv * Abs(b - c) < b /\ FErInv * Abs(a - b) > b
          [] k = 3 -> FErInv * Abs(b - c) < b /\ FErInv * Abs(a - b) < b

\* The masks that hold for (a, b, c): the assignments the code performs.
F2mConds(a, b, c) == {k \in 1..3 : F2mCond(k, a, b, c)}

\* F2[cond1]: the closed form with the elliptic integrals at (a/b, a/c, 1).
F2mGeneric(L1, L2, L3) ==
    With(carlson_rf(Ratio(L1, L2), Ratio(L1, L3), FP), LAMBDA RF :
    With(carlson_rd(Ratio(L1, L2), Ratio(L1, L3), FP), LAMBDA RD :
    With(L1 + L2 + L3, LAMBDA S :
    FMul(Div(S * S * FP, 3 * (L2 - L3) * (L2 - L3)),
         OverSqrtProd((L2 + L3) * RF, L2, L3)
         + OverSqrtProd((2 * L1 - L2 - L3) * RD, L2, L3) \div 3
         - 2 * FP))))

\* F2[cond2]: the singularity b == c, with L3 = (c + b) / 2.
F2mPair(L1, L3) ==
    With(FP - Ratio(L1, L3), LAMBDA x :
    With(IF x > 0 THEN ArctanhOverRoot(x) ELSE ArctanOverRoot(-x),
         LAMBDA alpha :
    FMul(Div(6 * (L1 + 2 * L3) * (L1 + 2 * L3) * FP, 144 * L3 * L3),
         Div(L3 * (L1 + 2 * L3) * FP + L1 * (L1 - 4 * L3) * alpha,
             (L1 - L3) * (L1 - L3)))))

\* _F2m without the overwrite under cond3 (the isotropic value 6/15).
_F2m_no_cond3(a, b, c) ==
    With(0, LAMBDA F2_0 :
    With(IF F2mCond(1, a, b, c) THEN F2mGeneric(a, b, c) ELSE F2_0,
         LAMBDA F2_1 :
    IF F2mCond(2, a, b, c) THEN F2mPair(a, (c + b) \div 2) ELSE F2_1))

_F2m(a, b, c) ==
    With(0, LAMBDA F2_0 :
    With(IF F2mCond(1, a, b, c) THEN F2mGeneric(a, b, c) ELSE F2_0,
         LAMBDA F2_1 :
    With(IF F2mCond(2, a, b, c) THEN F2mPair(a, (c + b) \div 2) ELSE F2_1,
         LAMBDA F2_2 :
    IF F2mCond(3, a, b, c) THEN (6 * FP) \div 15 ELSE F2_2)))

(***************************************************************************)
(* _F1m: the function F1 of the analytical mean kurtosis.                  *)
(***************************************************************************)
\* The masks of _F1m with cond0 left out of the isotropic mask cond4.
F1mCond_no_cond0(k, a, b, c) ==
    CASE k = 1 -> /\ _positive_evals(a, b, c)
                  /\ FErInv * Abs(a - b) >= a /\ FErInv * Abs(a - c) >= a
      [] k = 2 -> /\ _positive_evals(a, b, c)
                  /\ FErInv * Abs(a - b) < a /\ FErInv * Abs(a - c) > a
      [] k = 3 -> /\ _positive_evals(a, b, c)
                  /\ FErInv * Abs(a - c) < a /\ FErInv * Abs(a - b) > a
      [] k = 4 -> FErInv * Abs(a - c) < a /\ FErInv * Abs(a - b) < a

F1mCond(k, a, b, c) ==
    /\ _positive_evals(a, b, c)
    /\ CASE k = 1 -> FErInv * Abs(a - b) >= a /\ FErInv * Abs(a - c) >= a
          [] k = 2 -> FErInv * Abs(a - b) < a /\ FErInv * Abs(a - c) > a
          [] k = 3 -> FErInv * Abs(a - c) < a /\ FErInv * Abs(a - b) > a
          [] k = 4 -> FErInv * Abs(a - c) < a /\ FErInv * Abs(a - b) < a

F1mConds(a, b, c) == {k \in 1..4 : F1mCond(k, a, b, c)}

\* F1[cond1]: the closed form with the elliptic integrals at (a/b, a/c, 1).
F1mGeneric(L1, L2, L3) ==
    With(carlson_rf(Ratio(L1, L2), Ratio(L1, L3), FP), LAMBDA RFm :
    With(carlson_rd(Ratio(L1, L2), Ratio(L1, L3), FP), LAMBDA RDm :
    With(L1 + L2 + L3, LAMBDA S :
    FMul(Div(S * S * FP, 18 * (L1 - L2) * (L1 - L3)),
         (ISqrt(L2 * L3 * 10 ^ 4) * RFm) \div (L1 * 10 ^ 2)
         + OverSqrtProd(
               Div((3 * L1 * L1 - L1 * L2 - L1 * L3 - L2 * L3) * RDm, 3 * L1),
               L2, L3)
         - FP))))

_F1m(a, b, c) ==
    With(0, LAMBDA F1_0 :
    With(IF F1mCond(1, a, b, c) THEN F1mGeneric(a, b, c) ELSE F1_0,
         LAMBDA F1_1 :
    With(IF F1mCond(2, a, b, c)
         THEN _F2m(c, (a + b) \div 2, (a + b) \div 2) \div 2 ELSE F1_1,
         LAMBDA F1_2 :
    With(IF F1mCond(3, a, b, c)
         THEN _F2m(b, (a + c) \div 2, (a + c) \div 2) \div 2 ELSE F1_2,
         LAMBDA F1_3 :
    IF F1mCond(4, a, b, c) THEN FP \div 5 ELSE F1_3))))

(***************************************************************************)
(* _G1m and _G2m: the functions G1 and G2 of the analytical radial         *)
(* kurtosis.  er = np.finfo(float).eps * 1e5 = 2.22e-11 is an absolute     *)
(* tolerance: GErNum / GErDen units of 0.5e-7.                             *)
(***************************************************************************)
GErNum == 444

GErDen == 10 ^ 6

\* The masks of _G1m with the comparisons of abs(b - c) with er exchanged.
G1mCondOver_swapped(k, den, a, b, c) ==
    /\ a > PosEr * den /\ b > PosEr * den /\ c > PosEr * den
    /\ CASE k = 1 -> Abs(b - c) * GErDen < GErNum * den
          [] k = 2 -> Abs(b - c) * GErDen > GErNum * den

\* The masks of _G1m for the triplet (a / den, b / den, c / den): the
\* triplet (a, b, c) multiplied by the common factor 1 / den.
G1mCondOver(k, den, a, b, c) ==
    /\ a > PosEr * den /\ b > PosEr * den /\ c > PosEr * den
    /\ CASE k = 1 -> Abs(b - c) * GErDen > GErNum * den
          [] k = 2 -> Abs(b - c) * GErDen < GErNum * den

\* The masks of _G2m for the triplet (a / den, b / den, c / den).
G2mCondOver(k, den, a, b, c) ==
    /\ a > PosEr * den /\ b > PosEr * den /\ c > PosEr * den
    /\ CASE k = 1 -> Abs(b - c) * GErDen > GErNum * den
          [] k = 2 -> Abs(b - c) * GErDen < GErNum * den

G1mCond(k, a, b, c) ==
    /\ _positive_evals(a, b, c)
    /\ CASE k = 1 -> Abs(b - c) * GErDen > GErNum
          [] k = 2 -> Abs(b - c) * GErDen < GErNum

G1mConds(a, b, c) == {k \in 1..2 : G1mCond(k, a, b, c)}

_G1m(a, b, c) ==
    With(0, LAMBDA G1_0 :
    With(IF G1mCond(1, a, b, c)
         THEN FMul(Div((a + b + c) * (a + b + c) * FP, (b - c) * (b - c)),
                   (2 * b * FP
                    + OverSqrtProd((c * c - 3 * b * c) * FP, b, c))
                       \div (18 * b))
         ELSE G1_0, LAMBDA G1_1 :
    IF G1mCond(2, a, b, c)
    THEN Div((a + 2 * b) * (a + 2 * b) * FP, 24 * b * b) ELSE G1_1))

G2mCond(k, a, b, c) ==
    /\ _positive_evals(a, b, c)
    /\ CASE k = 1 -> Abs(b - c) * GErDen > GErNum
          [] k = 2 -> Abs(b - c) * GErDen < GErNum

G2mConds(a, b, c) == {k \in 1..2 : G2mCond(k, a, b, c)}

_G2m(a, b, c) ==
    With(0, LAMBDA G2_0 :
    With(IF G2mCond(1, a, b, c)
         THEN FMul(Div((a + b + c) * (a + b + c) * FP,
                       3 * (b - c) * (b - c)),
                   OverSqrtProd((b + c) * FP, b, c) - 2 * FP)
         ELSE G2_0, LAMBDA G2_1 :
    IF G2mCond(2, a, b, c)
    THEN Div((a + 2 * b) * (a + 2 * b) * FP, 12 * b * b) ELSE G2_1))

(***************************************************************************)
(* Arrays.  Python indexes from 0: a triple of eigenvalues, a direction    *)
(* and a row of a basis are functions on 0..2, the 15 kurtosis elements a  *)
(* function on 0..14.                                                      *)
(***************************************************************************)
ZeroBased(seq) == [i \in 0..(Len(seq) - 1) |-> seq[i + 1]]

Sum3(F(_)) == F(0) + F(1) + F(2)

RECURSIVE SumTo(_, _)
SumTo(f, n) == IF n < 0 THEN 0 ELSE f[n] + SumTo(f, n - 1)

\* np.mean of an array indexed 0..(n - 1).
Mean(f, n) == Div(SumTo(f, n - 1), n)

\* A direction, and a column of an eigenvector matrix, is an integer triple
\* of length VDen: the unit vector is the triple divided by VDen.
VDen == ISqrt(1 * 1 + 2 * 2 + 2 * 2)

(***************************************************************************)
(* ind_ele: the slot of the kurtosis element (i, j, k, l) in the vector of *)
(* the 15 independent elements, keyed by (i+1)*(j+1)*(k+1)*(l+1).          *)
(***************************************************************************)
\* ind_ele with the slot of key 6 (the element xxyz) mistyped as the slot of
\* key 12.
ind_ele_slot_typo ==
    (1 :> 0) @@ (16 :> 1) @@ (81 :> 2) @@ (2 :> 3) @@ (3 :> 4) @@ (8 :> 5)
    @@ (24 :> 6) @@ (27 :> 7) @@ (54 :> 8) @@ (4 :> 9) @@ (9 :> 10)
    @@ (36 :> 11) @@ (6 :> 13) @@ (12 :> 13) @@ (18 :> 14)

ind_ele ==
    (1 :> 0) @@ (16 :> 1) @@ (81 :> 2) @@ (2 :> 3) @@ (3 :> 4) @@ (8 :> 5)
    @@ (24 :> 6) @@ (27 :> 7) @@ (54 :> 8) @@ (4 :> 9) @@ (9 :> 10)
    @@ (36 :> 11) @@ (6 :> 12) @@ (12 :> 13) @@ (18 :> 14)

\* key = (il + 1) * (jl + 1) * (kl + 1) * (ll + 1)
CanonicalKey(il, jl, kl, ll) == (il + 1) * (jl + 1) * (kl + 1) * (ll + 1)

(***************************************************************************)
(* Wrotate_element: the element (indi, indj, indk, indl) of the kurtosis   *)
(* tensor kt in the basis B (columns), summed over the 81 index            *)
(* combinations.  B holds integer entries over VDen.                       *)
(***************************************************************************)
Wrotate_element(kt, indi, indj, indk, indl, B) ==
    Div(Sum3(LAMBDA il : Sum3(LAMBDA jl : Sum3(LAMBDA kl : Sum3(LAMBDA ll :
            B[il][indi] * B[jl][indj] * B[kl][indk] * B[ll][indl]
            * kt[ind_ele[CanonicalKey(il, jl, kl, ll)]])))),
        VDen ^ 4)

\* inds of Wrotate with the rows of the elements xxyy and xxzz exchanged.
WrotateInds_rows_exchanged ==
    ZeroBased(<<
        <<0, 0, 0, 0>>, <<1, 1, 1, 1>>, <<2, 2, 2, 2>>, <<0, 0, 0, 1>>,
        <<0, 0, 0, 2>>, <<0, 1, 1, 1>>, <<1, 1, 1, 2>>, <<0, 2, 2, 2>>,
        <<1, 2, 2, 2>>, <<0, 0, 2, 2>>, <<0, 0, 1, 1>>, <<1, 1, 2, 2>>,
        <<0, 0, 1, 2>>, <<0, 1, 1, 2>>, <<0, 1, 2, 2>>>>)

\* inds of Wrotate: the indices of the 15 elements, in the order of the
\* vector.
WrotateInds ==
    ZeroBased(<<
        <<0, 0, 0, 0>>, <<1, 1, 1, 1>>, <<2, 2, 2, 2>>, <<0, 0, 0, 1>>,
        <<0, 0, 0, 2>>, <<0, 1, 1, 1>>, <<1, 1, 1, 2>>, <<0, 2, 2, 2>>,
        <<1, 2, 2, 2>>, <<0, 0, 1, 1>>, <<0, 0, 2, 2>>, <<1, 1, 2, 2>>,
        <<0, 0, 1, 2>>, <<0, 1, 1, 2>>, <<0, 1, 2, 2>>>>)

\* Wrotate: the 15 elements of kt in the basis Basis, element e computed by
\* Wrotate_element for the indices inds[e].
Wrotate(kt, Basis) ==
    [e \in DOMAIN WrotateInds |->
        Wrotate_element(kt, WrotateInds[e][1], WrotateInds[e][2],
                        WrotateInds[e][3], WrotateInds[e][4], Basis)]

(***************************************************************************)
(* split_dki_param: a voxel's parameters are its eigenvalues, its          *)
(* eigenvector matrix and its 15 kurtosis elements.                        *)
(***************************************************************************)
split_dki_param(dki_params) ==
    [evals |-> dki_params.evals, evecs |-> dki_params.evecs,
     kt |-> dki_params.kt]

\* dipy.reconst.dti.mean_diffusivity: the mean of the eigenvalues, in
\* fixed-point units.
mean_diffusivity(evals) == Div((evals[0] + evals[1] + evals[2]) * FP, 3)

\* dipy.reconst.dti.radial_diffusivity: the mean of the last two
\* eigenvalues, in fixed-point units.
radial_diffusivity(evals) == Div((evals[1] + evals[2]) * FP, 2)

\* lower_triangular(vec_val_vect(evecs, evals)): the six elements
\* (Dxx, Dxy, Dyy, Dxz, Dyz, Dzz) of evecs diag(evals) evecs^T, in
\* fixed-point units.
DTElement(evecs, evals, i, j) ==
    Div(Sum3(LAMBDA k : evecs[i][k] * evals[k] * evecs[j][k]) * FP, VDen ^ 2)

lower_triangular(evecs, evals) ==
    ZeroBased(<<DTElement(evecs, evals, 0, 0), DTElement(evecs, evals, 1, 0),
                DTElement(evecs, evals, 1, 1), DTElement(evecs, evals, 2, 0),
                DTElement(evecs, evals, 2, 1), DTElement(evecs, evals, 2, 2)>>)

(***************************************************************************)
(* directional_diffusion: the apparent diffusion coefficient along one     *)
(* direction V, clipped below at min_diffusivity unless that is None.      *)
(***************************************************************************)
directional_diffusion(dt, V, min_diffusivity) ==
    LET adc == Div(V[0] * V[0] * dt[0] + 2 * V[0] * V[1] * dt[1]
                   + V[1] * V[1] * dt[2] + 2 * V[0] * V[2] * dt[3]
                   + 2 * V[1] * V[2] * dt[4] + V[2] * V[2] * dt[5], VDen ^ 2)
    IN  IF min_diffusivity # None THEN ClipMin(adc, Val(min_diffusivity))
        ELSE adc

(***************************************************************************)
(* directional_diffusion_variance: the apparent diffusion variance along   *)
(* one direction V.                                                        *)
(***************************************************************************)
directional_diffusion_variance(kt, V) ==
    Div(V[0] * V[0] * V[0] * V[0] * kt[0]
        + V[1] * V[1] * V[1] * V[1] * kt[1]
        + V[2] * V[2] * V[2] * V[2] * kt[2]
        + 4 * V[0] * V[0] * V[0] * V[1] * kt[3]
        + 4 * V[0] * V[0] * V[0] * V[2] * kt[4]
        + 4 * V[0] * V[1] * V[1] * V[1] * kt[5]
        + 4 * V[1] * V[1] * V[1] * V[2] * kt[6]
        + 4 * V[0] * V[2] * V[2] * V[2] * kt[7]
        + 4 * V[1] * V[2] * V[2] * V[2] * kt[8]
        + 6 * V[0] * V[0] * V[1] * V[1] * kt[9]
        + 6 * V[0] * V[0] * V[2] * V[2] * kt[10]
        + 6 * V[1] * V[1] * V[2] * V[2] * kt[11]
        + 12 * V[0] * V[0] * V[1] * V[2] * kt[12]
        + 12 * V[0] * V[1] * V[1] * V[2] * kt[13]
        + 12 * V[0] * V[1] * V[2] * V[2] * kt[14], VDen ^ 4)

(***************************************************************************)
(* directional_kurtosis: akc = adv * (md / adc) ** 2 along one direction,  *)
(* clipped below at min_kurtosis unless that is None.                      *)
(***************************************************************************)
\* The default min_kurtosis = -3 / 7, in fixed point.
DefaultMinKurtosis == -429

\* directional_kurtosis that returns akc as computed.
directional_kurtosis_no_clip(dt, md, kt, V, min_diffusivity, min_kurtosis) ==
    LET adc   == directional_diffusion(dt, V, min_diffusivity)
        adv   == directional_diffusion_variance(kt, V)
        ratio == FDiv(md, adc)
    IN  FMul(adv, FMul(ratio, ratio))

directional_kurtosis(dt, md, kt, V, min_diffusivity, min_kurtosis) ==
    LET adc   == directional_diffusion(dt, V, min_diffusivity)
        adv   == directional_diffusion_variance(kt, V)
        ratio == FDiv(md, adc)
        akc   == FMul(adv, FMul(ratio, ratio))
    IN  IF min_kurtosis # None THEN ClipMin(akc, Val(min_kurtosis)) ELSE akc

(***************************************************************************)
(* apparent_kurtosis_coef: the directional kurtosis at every vertex of a   *)
(* sphere (a sequence of directions), 0 at every vertex for a voxel whose  *)
(* eigenvalues are not all positive.                                       *)
(***************************************************************************)
apparent_kurtosis_coef(dki_params, sphere, min_diffusivity, min_kurtosis) ==
    LET p     == split_dki_param(dki_params)
        rel_i == _positive_evals(p.evals[0], p.evals[1], p.evals[2])
        md    == mean_diffusivity(p.evals)
        dt    == lower_triangular(p.evecs, p.evals)
    IN  [g \in 0..(Len(sphere) - 1) |->
            IF rel_i
            THEN directional_kurtosis(dt, md, p.kt, sphere[g + 1],
                                      min_diffusivity, min_kurtosis)
            ELSE 0]

\* The t-design of 45 directions mean_kurtosis loads, as a sequence of
\* directions of length VDen.
TDesign ==
    <<ZeroBased(<<3, 0, 0>>), ZeroBased(<<0, 3, 0>>), ZeroBased(<<0, 0, 3>>),
      ZeroBased(<<1, 2, 2>>), ZeroBased(<<2, 1, -2>>), ZeroBased(<<2, -2, 1>>),
      ZeroBased(<<-1, 2, 2>>), ZeroBased(<<2, -1, 2>>), ZeroBased(<<2, 2, -1>>)>>

\* dipy.core.geometry.perpendicular_directions(v, num, half=True): unit
\* directions perpendicular to v, one of each antipodal pair, here those of
\* the directions of length VDen with integer coordinates.
LatticeDirs ==
    {ZeroBased(<<x, y, z>>) : x \in -3..3, y \in -3..3, z \in -3..3}

IsHalf(V) ==
    \/ V[0] > 0
    \/ V[0] = 0 /\ V[1] > 0
    \/ V[0] = 0 /\ V[1] = 0 /\ V[2] > 0

RECURSIVE SetToSeq(_)
SetToSeq(S) ==
    IF S = {} THEN <<>>
    ELSE LET x == CHOOSE y \in S : TRUE IN <<x>> \o SetToSeq(S \ {x})

perpendicular_directions(v) ==
    SetToSeq({V \in LatticeDirs :
                /\ V[0] * V[0] + V[1] * V[1] + V[2] * V[2] = VDen ^ 2
                /\ V[0] * v[0] + V[1] * v[1] + V[2] * v[2] = 0
                /\ IsHalf(V)})

\* evecs[:, j]: column j of an eigenvector matrix.
Column(evecs, j) == [i \in 0..2 |-> evecs[i][j]]

(***************************************************************************)
(* mean_kurtosis                                                           *)
(***************************************************************************)
MeanKurtosisRaw(dki_params, min_kurtosis, analytical) ==
    LET p == split_dki_param(dki_params)
        evals == p.evals
        Wxxxx == Wrotate_element(p.kt, 0, 0, 0, 0, p.evecs)
        Wyyyy == Wrotate_element(p.kt, 1, 1, 1, 1, p.evecs)
        Wzzzz == Wrotate_element(p.kt, 2, 2, 2, 2, p.evecs)
        Wxxyy == Wrotate_element(p.kt, 0, 0, 1, 1, p.evecs)
        Wxxzz == Wrotate_element(p.kt, 0, 0, 2, 2, p.evecs)
        Wyyzz == Wrotate_element(p.kt, 1, 1, 2, 2, p.evecs)
    IN  IF analytical
        THEN FMul(_F1m(evals[0], evals[1], evals[2]), Wxxxx)
             + FMul(_F1m(evals[1], evals[0], evals[2]), Wyyyy)
             + FMul(_F1m(evals[2], evals[1], evals[0]), Wzzzz)
             + FMul(_F2m(evals[0], evals[1], evals[2]), Wyyzz)
             + FMul(_F2m(evals[1], evals[0], evals[2]), Wxxzz)
             + FMul(_F2m(evals[2], evals[1], evals[0]), Wxxyy)
        ELSE Mean(apparent_kurtosis_coef(dki_params, TDesign, Some(0),
                                         min_kurtosis), Len(TDesign))

\* The two clips with the clip at max_kurtosis forgotten.
ClipKurtosis_no_max(K, min_kurtosis, max_kurtosis) ==
    IF min_kurtosis # None THEN ClipMin(K, Val(min_kurtosis)) ELSE K

\* The two clips every clipped metric ends with.
ClipKurtosis(K, min_kurtosis, max_kurtosis) ==
    LET K1 == IF min_kurtosis # None THEN ClipMin(K, Val(min_kurtosis)) ELSE K
        K2 == IF max_kurtosis # None THEN ClipMax(K1, Val(max_kurtosis)) ELSE K1
    IN  K2

mean_kurtosis(dki_params, min_kurtosis, max_kurtosis, analytical) ==
    ClipKurtosis(MeanKurtosisRaw(dki_params, min_kurtosis, analytical),
                 min_kurtosis, max_kurtosis)

(***************************************************************************)
(* radial_kurtosis                                                         *)
(***************************************************************************)
RadialKurtosisRaw(dki_params, min_kurtosis, analytical) ==
    LET p == split_dki_param(dki_params)
        evals == p.evals
        Wyyyy == Wrotate_element(p.kt, 1, 1, 1, 1, p.evecs)
        Wzzzz == Wrotate_element(p.kt, 2, 2, 2, 2, p.evecs)
        Wyyzz == Wrotate_element(p.kt, 1, 1, 2, 2, p.evecs)
        rel_i == _positive_evals(evals[0], evals[1], evals[2])
        sph   == perpendicular_directions(Column(p.evecs, 0))
    IN  IF analytical
        THEN FMul(_G1m(evals[0], evals[1], evals[2]), Wyyyy)
             + FMul(_G1m(evals[0], evals[2], evals[1]), Wzzzz)
             + FMul(_G2m(evals[0], evals[1], evals[2]), Wyyzz)
        ELSE IF rel_i
             THEN Mean(apparent_kurtosis_coef(dki_params, sph, Some(0),
                                              min_kurtosis), Len(sph))
             ELSE 0

radial_kurtosis(dki_params, min_kurtosis, max_kurtosis, analytical) ==
    ClipKurtosis(RadialKurtosisRaw(dki_params, min_kurtosis, analytical),
                 min_kurtosis, max_kurtosis)

(***************************************************************************)
(* axial_kurtosis                                                          *)
(***************************************************************************)
\* axial_kurtosis computing every voxel, without the selection by rel_i.
AxialKurtosisRaw_no_gate(dki_params, analytical) ==
    LET p == split_dki_param(dki_params)
        evals == p.evals
        md    == mean_diffusivity(evals)
        Wxxxx == Wrotate_element(p.kt, 0, 0, 0, 0, p.evecs)
        ratio == Div(md, evals[0])
        dt    == lower_triangular(p.evecs, evals)
    IN  IF analytical THEN FMul(Wxxxx, FMul(ratio, ratio))
        ELSE directional_kurtosis(dt, md, p.kt, Column(p.evecs, 0), Some(0),
                                  Some(DefaultMinKurtosis))

AxialKurtosisRaw(dki_params, analytical) ==
    LET p == split_dki_param(dki_params)
        evals == p.evals
        rel_i == _positive_evals(evals[0], evals[1], evals[2])
        md    == mean_diffusivity(evals)
        Wxxxx == Wrotate_element(p.kt, 0, 0, 0, 0, p.evecs)
        ratio == Div(md, evals[0])
        dt    == lower_triangular(p.evecs, evals)
    IN  IF ~rel_i THEN 0
        ELSE IF analytical THEN FMul(Wxxxx, FMul(ratio, ratio))
        ELSE directional_kurtosis(dt, md, p.kt, Column(p.evecs, 0), Some(0),
                                  Some(DefaultMinKurtosis))

axial_kurtosis(dki_params, min_kurtosis, max_kurtosis, analytical) ==
    ClipKurtosis(AxialKurtosisRaw(dki_params, analytical),
                 min_kurtosis, max_kurtosis)

(***************************************************************************)
(* mean_kurtosis_tensor                                                    *)
(***************************************************************************)
MeanKurtosisTensorRaw(dki_params) ==
    LET kt == dki_params.kt
    IN  Div(kt[0] + kt[1] + kt[2] + 2 * kt[9] + 2 * kt[10] + 2 * kt[11], 5)

mean_kurtosis_tensor(dki_params, min_kurtosis, max_kurtosis) ==
    ClipKurtosis(MeanKurtosisTensorRaw(dki_params), min_kurtosis, max_kurtosis)

(***************************************************************************)
(* radial_tensor_kurtosis                                                  *)
(***************************************************************************)
RadialTensorKurtosisRaw(dki_params) ==
    LET p == split_dki_param(dki_params)
        evals == p.evals
        rel_i == _positive_evals(evals[0], evals[1], evals[2])
        Wyyyy == Wrotate_element(p.kt, 1, 1, 1, 1, p.evecs)
        Wzzzz == Wrotate_element(p.kt, 2, 2, 2, 2, p.evecs)
        Wyyzz == Wrotate_element(p.kt, 1, 1, 2, 2, p.evecs)
        WTK   == Div(3 * (Wyyyy + Wzzzz + 2 * Wyyzz), 8)
        ratio == FDiv(mean_diffusivity(evals), radial_diffusivity(evals))
    IN  IF rel_i THEN FMul(WTK, FMul(ratio, ratio)) ELSE 0

radial_tensor_kurtosis(dki_params, min_kurtosis, max_kurtosis) ==
    ClipKurtosis(RadialTensorKurtosisRaw(dki_params), min_kurtosis, max_kurtosis)

(***************************************************************************)
(* kurtosis_fractional_anisotropy                                          *)
(***************************************************************************)
Sq(x) == FMul(x, x)

\* KfaTerms with the whole of W subtracted from the cross elements.
KfaTerms_whole_mean(dki_params) ==
    LET kt == dki_params.kt
        Wxxxx == kt[0]
        Wyyyy == kt[1]
        Wzzzz == kt[2]
        Wxxxy == kt[3]
        Wxxxz == kt[4]
        Wxyyy == kt[5]
        Wyyyz == kt[6]
        Wxzzz == kt[7]
        Wyzzz == kt[8]
        Wxxyy == kt[9]
        Wxxzz == kt[10]
        Wyyzz == kt[11]
        Wxxyz == kt[12]
        Wxyyz == kt[13]
        Wxyzz == kt[14]
        W == Div(Wxxxx + Wyyyy + Wzzzz + 2 * Wxxyy + 2 * Wxxzz + 2 * Wyyzz, 5)
        A == Sq(Wxxxx - W) + Sq(Wyyyy - W) + Sq(Wzzzz - W)
             + 4 * (Sq(Wxxxy) + Sq(Wxxxz) + Sq(Wxyyy) + Sq(Wyyyz) + Sq(Wxzzz)
                    + Sq(Wyzzz))
             + 6 * (Sq(Wxxyy - W) + Sq(Wxxzz - W) + Sq(Wyyzz - W))
             + 12 * (Sq(Wxxyz) + Sq(Wxyyz) + Sq(Wxyzz))
        B == Sq(Wxxxx) + Sq(Wyyyy) + Sq(Wzzzz)
             + 4 * (Sq(Wxxxy) + Sq(Wxxxz) + Sq(Wxyyy) + Sq(Wyyyz) + Sq(Wxzzz)
                    + Sq(Wyzzz))
             + 6 * (Sq(Wxxyy) + Sq(Wxxzz) + Sq(Wyyzz))
             + 12 * (Sq(Wxxyz) + Sq(Wxyyz) + Sq(Wxyzz))
    IN  [W |-> W, A |-> A, B |-> B]

\* W, the numerator A and the denominator B of kurtosis_fractional_anisotropy.
KfaTerms(dki_params) ==
    LET kt == dki_params.kt
        Wxxxx == kt[0]
        Wyyyy == kt[1]
        Wzzzz == kt[2]
        Wxxxy == kt[3]
        Wxxxz == kt[4]
        Wxyyy == kt[5]
        Wyyyz == kt[6]
        Wxzzz == kt[7]
        Wyzzz == kt[8]
        Wxxyy == kt[9]
        Wxxzz == kt[10]
        Wyyzz == kt[11]
        Wxxyz == kt[12]
        Wxyyz == kt[13]
        Wxyzz == kt[14]
        W == Div(Wxxxx + Wyyyy + Wzzzz + 2 * Wxxyy + 2 * Wxxzz + 2 * Wyyzz, 5)
        A == Sq(Wxxxx - W) + Sq(Wyyyy - W) + Sq(Wzzzz - W)
             + 4 * (Sq(Wxxxy) + Sq(Wxxxz) + Sq(Wxyyy) + Sq(Wyyyz) + Sq(Wxzzz)
                    + Sq(Wyzzz))
             + 6 * (Sq(Wxxyy - Div(W, 3)) + Sq(Wxxzz - Div(W, 3))
                    + Sq(Wyyzz - Div(W, 3)))
             + 12 * (Sq(Wxxyz) + Sq(Wxyyz) + Sq(Wxyzz))
        B == Sq(Wxxxx) + Sq(Wyyyy) + Sq(Wzzzz)
             + 4 * (Sq(Wxxxy) + Sq(Wxxxz) + Sq(Wxyyy) + Sq(Wyyyz) + Sq(Wxzzz)
                    + Sq(Wyzzz))
             + 6 * (Sq(Wxxyy) + Sq(Wxxzz) + Sq(Wyyzz))
             + 12 * (Sq(Wxxyz) + Sq(Wxyyz) + Sq(Wxyzz))
    IN  [W |-> W, A |-> A, B |-> B]

\* kurtosis_fractional_anisotropy with the magnitude of W compared with the
\* tolerance.
kurtosis_fractional_anisotropy_abs(dki_params) ==
    LET t == KfaTerms(dki_params)
        cond1 == t.B > 0
        cond2 == Abs(t.W) > 0
    IN  IF cond1 /\ cond2 THEN FSqrt(FDiv(t.A, t.B)) ELSE 0

kurtosis_fractional_anisotropy(dki_params) ==
    LET t == KfaTerms(dki_params)
        cond1 == t.B > 0
        \* W > 1e-8: the tolerance is below the fixed-point resolution
        cond2 == t.W > 0
    IN  IF cond1 /\ cond2 THEN FSqrt(FDiv(t.A, t.B)) ELSE 0

(***************************************************************************)
(* The inputs the model draws.                                             *)
(***************************************************************************)
\* The largest eigenvalue drawn, in units of 1e-7.
MaxEval == 42

\* The largest kurtosis amplitude drawn, in steps of KtStep.
MaxKt == 3

KtStep == (3 * FP) \div 10

\* Eigenvalues for the coefficient functions: zero, the threshold 2e-7,
\* values just above it, and three large values within the relative
\* tolerance of one another.
EvalVals == {2 * e : e \in {0, 2, 3, 10, MaxEval - 2, MaxEval - 1, MaxEval}}

Triples == {ZeroBased(<<a, b, c>>) : a \in EvalVals, b \in EvalVals,
                                     c \in EvalVals}

\* Eigenvalues of a fitted voxel: in descending order.
VoxelEvalVals == {2 * e : e \in {2, 3, 10, MaxEval - 1, MaxEval}}

VoxelEvals == {t \in {ZeroBased(<<a, b, c>>) : a \in VoxelEvalVals,
                         b \in VoxelEvalVals, c \in VoxelEvalVals} :
                 t[0] >= t[1] /\ t[1] >= t[2]}

\* Orthonormal bases, entries over VDen: the canonical basis and a basis
\* with no zero entry.
Row(x, y, z) == ZeroBased(<<x, y, z>>)

CanonicalBasis == ZeroBased(<<Row(3, 0, 0), Row(0, 3, 0), Row(0, 0, 3)>>)

ObliqueBasis == ZeroBased(<<Row(1, 2, 2), Row(2, 1, -2), Row(2, -2, 1)>>)

Bases == {CanonicalBasis, ObliqueBasis}

\* Kurtosis tensors: a shape (the 15 elements in small integers) times an
\* amplitude.
KtOf(shape, amp) == [i \in 0..14 |-> shape[i + 1] * amp * KtStep]

IsoShape == <<3, 3, 3, 0, 0, 0, 0, 0, 0, 1, 1, 1, 0, 0, 0>>

X4Shape == <<1, 0, 0, 0, 0, 0, 0, 0, 0, 0, 0, 0, 0, 0, 0>>

XY4Shape == <<1, 1, 0, 0, 0, 0, 0, 0, 0, 0, 0, 0, 0, 0, 0>>

MixedShape == <<2, 1, 0, 1, 0, -1, 0, 1, 0, 1, 0, 2, 1, 0, -1>>

Kts == {KtOf(IsoShape, 0), KtOf(IsoShape, 1), KtOf(X4Shape, -MaxKt),
        KtOf(X4Shape, MaxKt), KtOf(XY4Shape, 1), KtOf(MixedShape, 1)}

Voxels == [evals : VoxelEvals, evecs : Bases, kt : Kts]

MinKurtoses == {None, Some(DefaultMinKurtosis), Some(2 * KtStep)}

MaxKurtoses == {None, Some(KtStep)}

IndexQuads == {<<0, 0, 0, 0>>, <<1, 1, 1, 1>>, <<2, 2, 2, 2>>, <<0, 0, 1, 1>>,
               <<0, 0, 2, 2>>, <<1, 1, 2, 2>>, <<0, 1, 2, 2>>, <<2, 1, 0, 1>>}

(***************************************************************************)
(* State.                                                                  *)
(***************************************************************************)
VARIABLES
    call,     \* the call of a function of the module that has just completed
    km,       \* the locals of the running call of _voxel_kurtosis_maximum
    model,    \* the attributes of the DiffusionKurtosisModel object
    outcome,  \* what the last call of a method of the object did
    ncalls,   \* the number of fit calls made on the object
    manager   \* the TabManager object of the viewer and its tabs

vars == <<call, km, model, outcome, ncalls, manager>>

modelVars == <<model, outcome, ncalls, manager>>

NoCall == [op |-> "none"]

\* The clipped metrics by name.
ClippedMetrics == {"mean_kurtosis", "radial_kurtosis", "axial_kurtosis",
                   "mean_kurtosis_tensor", "radial_tensor_kurtosis"}

MetricRaw(op, dki_params, min_kurtosis, analytical) ==
    CASE op = "mean_kurtosis" ->
             MeanKurtosisRaw(dki_params, min_kurtosis, analytical)
      [] op = "radial_kurtosis" ->
             RadialKurtosisRaw(dki_params, min_kurtosis, analytical)
      [] op = "axial_kurtosis" -> AxialKurtosisRaw(dki_params, analytical)
      [] op = "mean_kurtosis_tensor" -> MeanKurtosisTensorRaw(dki_params)
      [] op = "radial_tensor_kurtosis" -> RadialTensorKurtosisRaw(dki_params)

MetricCall(op, dki_params, min_kurtosis, max_kurtosis, analytical, ret) ==
    [op |-> op, dki_params |-> dki_params, min_kurtosis |-> min_kurtosis,
     max_kurtosis |-> max_kurtosis, analytical |-> analytical,
     raw |-> MetricRaw(op, dki_params, min_kurtosis, analytical), ret |-> ret]

CoefCall(op, a, b, c, conds, ret) ==
    [op |-> op, a |-> a, b |-> b, c |-> c, conds |-> conds, ret |-> ret]

(***************************************************************************)
(* Calls of the coefficient functions on one triplet.                      *)
(***************************************************************************)
CallF1m ==
    /\ call = NoCall
    /\ \E t \in Triples :
           call' = CoefCall("_F1m", t[0], t[1], t[2],
                            F1mConds(t[0], t[1], t[2]), _F1m(t[0], t[1], t[2]))
    /\ UNCHANGED <<km, modelVars>>

CallF2m ==
    /\ call = NoCall
    /\ \E t \in Triples :
           call' = CoefCall("_F2m", t[0], t[1], t[2],
                            F2mConds(t[0], t[1], t[2]), _F2m(t[0], t[1], t[2]))
    /\ UNCHANGED <<km, modelVars>>

CallG1m ==
    /\ call = NoCall
    /\ \E t \in Triples :
           call' = CoefCall("_G1m", t[0], t[1], t[2],
                            G1mConds(t[0], t[1], t[2]), _G1m(t[0], t[1], t[2]))
    /\ UNCHANGED <<km, modelVars>>

CallG2m ==
    /\ call = NoCall
    /\ \E t \in Triples :
           call' = CoefCall("_G2m", t[0], t[1], t[2],
                            G2mConds(t[0], t[1], t[2]), _G2m(t[0], t[1], t[2]))
    /\ UNCHANGED <<km, modelVars>>

\* Triplets of large eigenvalues, b and c equal or a few units apart, and
\* the common factors 1 / den they are multiplied by.
ScaledTriples ==
    {ZeroBased(<<a, 10 ^ 5 + db, 10 ^ 5 + dc>>) :
        a \in {4 * 10 ^ 4, 2 * 10 ^ 5}, db \in {0, 4, 5, 8, 2000},
        dc \in {0, 4}}

ScaleDens == {1, 2, 10 ^ 4}

\* _G1m or _G2m on a triplet and on the triplet times 1 / den: the masks
\* that hold for each.
CallGScaled ==
    /\ call = NoCall
    /\ \E fn \in {"_G1m", "_G2m"}, t \in ScaledTriples, den \in ScaleDens :
         call' = [op |-> "scaled", fn |-> fn, a |-> t[0], b |-> t[1],
                  c |-> t[2], den |-> den,
                  conds |-> IF fn = "_G1m"
                            THEN {k \in 1..2 :
                                     G1mCondOver(k, 1, t[0], t[1], t[2])}
                            ELSE {k \in 1..2 :
                                     G2mCondOver(k, 1, t[0], t[1], t[2])},
                  scaled_conds |->
                      IF fn = "_G1m"
                      THEN {k \in 1..2 : G1mCondOver(k, den, t[0], t[1], t[2])}
                      ELSE {k \in 1..2 :
                               G2mCondOver(k, den, t[0], t[1], t[2])}]
    /\ UNCHANGED <<km, modelVars>>

(***************************************************************************)
(* A call of Wrotate_element; the call reads the table ind_ele.            *)
(***************************************************************************)
CallWrotateElement ==
    /\ call = NoCall
    /\ \E kt \in Kts, q \in IndexQuads, B \in Bases :
           call' = [op |-> "Wrotate_element", kt |-> kt, ind |-> q, B |-> B,
                    table |-> ind_ele,
                    ret |-> Wrotate_element(kt, q[1], q[2], q[3], q[4], B)]
    /\ UNCHANGED <<km, modelVars>>

\* A kurtosis tensor of 15 different elements.
DistinctShape == <<1, 2, 3, 4, 5, 6, 7, 8, 9, 10, 11, 12, 13, 14, 15>>

CallWrotate ==
    /\ call = NoCall
    /\ \E kt \in Kts \cup {KtOf(DistinctShape, 1), KtOf(DistinctShape, -1)},
          B \in Bases :
           call' = [op |-> "Wrotate", kt |-> kt, B |-> B,
                    ret |-> Wrotate(kt, B)]
    /\ UNCHANGED <<km, modelVars>>

(***************************************************************************)
(* Calls of the scalar metrics on one voxel.                               *)
(***************************************************************************)
CallMeanKurtosis ==
    /\ call = NoCall
    /\ \E v \in Voxels, mn \in MinKurtoses, mx \in MaxKurtoses,
          analytical \in BOOLEAN :
           call' = MetricCall("mean_kurtosis", v, mn, mx, analytical,
                              mean_kurtosis(v, mn, mx, analytical))
    /\ UNCHANGED <<km, modelVars>>

CallRadialKurtosis ==
    /\ call = NoCall
    /\ \E v \in Voxels, mn \in MinKurtoses, mx \in MaxKurtoses,
          analytical \in BOOLEAN :
           call' = MetricCall("radial_kurtosis", v, mn, mx, analytical,
                              radial_kurtosis(v, mn, mx, analytical))
    /\ UNCHANGED <<km, modelVars>>

CallAxialKurtosis ==
    /\ call = NoCall
    /\ \E v \in Voxels, mn \in MinKurtoses, mx \in MaxKurtoses,
          analytical \in BOOLEAN :
           call' = MetricCall("axial_kurtosis", v, mn, mx, analytical,
                              axial_kurtosis(v, mn, mx, analytical))
    /\ UNCHANGED <<km, modelVars>>

\* apparent_kurtosis_coef on the directions of the t-design, with the
\* default min_diffusivity = 0.
CallApparentKurtosisCoef ==
    /\ call = NoCall
    /\ \E v \in Voxels, mn \in MinKurtoses :
           call' = [op |-> "apparent_kurtosis_coef", dki_params |-> v,
                    sphere |-> TDesign, min_kurtosis |-> mn,
                    ret |-> apparent_kurtosis_coef(v, TDesign, Some(0), mn)]
    /\ UNCHANGED <<km, modelVars>>

CallMeanKurtosisTensor ==
    /\ call = NoCall
    /\ \E v \in Voxels, mn \in MinKurtoses, mx \in MaxKurtoses :
           call' = MetricCall("mean_kurtosis_tensor", v, mn, mx, TRUE,
                              mean_kurtosis_tensor(v, mn, mx))
    /\ UNCHANGED <<km, modelVars>>

CallRadialTensorKurtosis ==
    /\ call = NoCall
    /\ \E v \in Voxels, mn \in MinKurtoses, mx \in MaxKurtoses :
           call' = MetricCall("radial_tensor_kurtosis", v, mn, mx, TRUE,
                              radial_tensor_kurtosis(v, mn, mx))
    /\ UNCHANGED <<km, modelVars>>

\* Voxels of every shape of kurtosis tensor at every amplitude, negative
\* ones too; kurtosis_fractional_anisotropy reads the kurtosis elements only.
KfaVoxels ==
    [evals : {ZeroBased(<<2 * MaxEval, 2 * MaxEval, 2 * MaxEval>>)},
     evecs : {CanonicalBasis},
     kt : {KtOf(shape, amp) :
              shape \in {IsoShape, X4Shape, XY4Shape, MixedShape},
              amp \in (-MaxKt)..MaxKt}]

CallKurtosisFractionalAnisotropy ==
    /\ call = NoCall
    /\ \E v \in Voxels \cup KfaVoxels :
           call' = [op |-> "kurtosis_fractional_anisotropy", dki_params |-> v,
                    ret |-> kurtosis_fractional_anisotropy(v)]
    /\ UNCHANGED <<km, modelVars>>

\* The caller takes the result; the module keeps no state between calls.
Return ==
    /\ call # NoCall
    /\ call' = NoCall
    /\ UNCHANGED <<km, modelVars>>

NextCoefficients ==
    \/ CallGScaled
    \/ CallF1m
    \/ CallF2m
    \/ CallG1m
    \/ CallG2m
    \/ CallWrotateElement
    \/ CallWrotate
    \/ Return

NextMetrics ==
    \/ CallApparentKurtosisCoef
    \/ CallAxialKurtosis
    \/ CallMeanKurtosis
    \/ CallRadialKurtosis
    \/ CallMeanKurtosisTensor
    \/ CallRadialTensorKurtosis
    \/ CallKurtosisFractionalAnisotropy
    \/ Return

(***************************************************************************)
(* _voxel_kurtosis_maximum: the maximum of the directional kurtosis of one *)
(* voxel, searched on the vertices of a sphere and refined from each local *)
(* maximum.                                                                *)
(***************************************************************************)
\* A sphere: its vertices (directions of length VDen) and the edges of its
\* adjacency graph, pairs of vertex numbers counted from 0.
Octahedron(B) ==
    [vertices |-> <<Column(B, 0), [i \in 0..2 |-> -B[i][0]],
                    Column(B, 1), [i \in 0..2 |-> -B[i][1]],
                    Column(B, 2), [i \in 0..2 |-> -B[i][2]]>>,
     edges |-> {e \in SUBSET (0..5) :
                  Cardinality(e) = 2 /\ e \notin {{0, 1}, {2, 3}, {4, 5}}}]

Spheres == {Octahedron(B) : B \in Bases}

\* gtol: None, or a tolerance (its value plays no part in the model).
Gtols == {None, Some(10)}

\* The directions a refinement may end at.
RefineDirs == {TDesign[i] : i \in 1..Len(TDesign)}

\* Voxels the caller selects: all eigenvalues positive.
SearchVoxels ==
    {v \in Voxels : _positive_evals(v.evals[0], v.evals[1], v.evals[2])}

\* dipy.reconst.recspeed.local_maxima(odf, edges): the vertices whose value
\* exceeds the value of every adjacent vertex.
local_maxima(odf, edges) ==
    {i \in DOMAIN odf :
        \A e \in edges : i \in e => \A j \in e \ {i} : odf[i] > odf[j]}

\* The orders in which local_maxima may return the vertices of a set.
Orders(S) ==
    {o \in [1..Cardinality(S) -> S] : \A i, j \in DOMAIN o :
                                         i # j => o[i] # o[j]}

RECURSIVE MaxOf(_, _)
MaxOf(f, n) ==
    IF n = 0 THEN f[0]
    ELSE With(MaxOf(f, n - 1), LAMBDA m : IF f[n] > m THEN f[n] ELSE m)

Zeros3 == ZeroBased(<<0, 0, 0>>)

KmIdle == [pc |-> "idle"]

\* The kurtosis along the direction the refinement of a candidate ends at.
RefinedKurtosis(dt, md, kt, k_dir) ==
    directional_kurtosis(dt, md, kt, k_dir, Some(0), Some(DefaultMinKurtosis))

\* The update taking the refined candidate whatever its value.
RefineUpdate_always(max_value, max_direction, k_val, k_dir) ==
    [max_value |-> k_val, max_direction |-> k_dir]

\* if k_val > max_value: max_value = k_val; max_direction = k_dir
RefineUpdate(max_value, max_direction, k_val, k_dir) ==
    IF k_val > max_value
    THEN [max_value |-> k_val, max_direction |-> k_dir]
    ELSE [max_value |-> max_value, max_direction |-> max_direction]

\* The return when no local maximum is found, with the first vertex for
\* the direction.
NoMaximum_first_vertex(akc, sphere) ==
    <<Mean(akc, Len(sphere.vertices)), sphere.vertices[1]>>

\* if n == 0: return np.mean(akc), np.zeros(3)
NoMaximum(akc, sphere) == <<Mean(akc, Len(sphere.vertices)), Zeros3>>

\* akc = directional_kurtosis(dt, md, kt, sphere.vertices)
CoarseKurtosis(dt, md, kt, sphere) ==
    [i \in 0..(Len(sphere.vertices) - 1) |->
        directional_kurtosis(dt, md, kt, sphere.vertices[i + 1], Some(0),
                             Some(DefaultMinKurtosis))]

\* The function up to its refinement loop, for the local maxima ind of akc:
\* the return when there is none, else the best of the candidates.
KurtosisMaximumEntry(dt, md, kt, sphere, gtol, akc, ind) ==
    With([i \in 0..(Len(ind) - 1) |-> akc[ind[i + 1]]], LAMBDA max_val :
    With(Len(ind), LAMBDA n :
    With([dt |-> dt, md |-> md, kt |-> kt, sphere |-> sphere, gtol |-> gtol,
          akc |-> akc, max_val |-> max_val, ind |-> ind, n |-> n,
          refined |-> 0], LAMBDA locals :
    IF n = 0
    THEN [pc |-> "done", ret |-> NoMaximum(akc, sphere)] @@ locals
    ELSE With(MaxOf(max_val, n - 1), LAMBDA max_value :
         With(sphere.vertices[ind[1] + 1], LAMBDA max_direction :
         IF gtol # None
         THEN [pc |-> "refine", p |-> 0, max_value |-> max_value,
               max_direction |-> max_direction] @@ locals
         ELSE [pc |-> "done", ret |-> <<max_value, max_direction>>,
               max_value |-> max_value, max_direction |-> max_direction]
              @@ locals)))))

VoxelKurtosisMaximum ==
    /\ km = KmIdle
    /\ \E v \in SearchVoxels, sphere \in Spheres, gtol \in Gtols :
         LET dt  == lower_triangular(v.evecs, v.evals)
             md  == mean_diffusivity(v.evals)
             akc == CoarseKurtosis(dt, md, v.kt, sphere)
         IN  \E ind \in Orders(local_maxima(akc, sphere.edges)) :
                 km' = KurtosisMaximumEntry(dt, md, v.kt, sphere, gtol, akc,
                                            ind)
    /\ UNCHANGED <<call, modelVars>>

\* One pass of the loop over the candidates: the refinement of candidate p
\* ends at some direction k_dir; after the last pass the function returns.
\* prev keeps the best before the pass.
RefineCandidate ==
    /\ km.pc = "refine"
    /\ \E k_dir \in RefineDirs :
         LET k_val == RefinedKurtosis(km.dt, km.md, km.kt, k_dir)
             best  == RefineUpdate(km.max_value, km.max_direction, k_val,
                                   k_dir)
             pass  == [k_dir |-> k_dir, k_val |-> k_val,
                       prev |-> [max_value |-> km.max_value,
                                 max_direction |-> km.max_direction],
                       max_value |-> best.max_value,
                       max_direction |-> best.max_direction,
                       p |-> km.p + 1, refined |-> km.refined + 1]
         IN  km' = IF km.p + 1 < km.n
                   THEN pass @@ km
                   ELSE [pc |-> "done",
                         ret |-> <<best.max_value, best.max_direction>>]
                        @@ pass @@ km
    /\ UNCHANGED <<call, modelVars>>

(***************************************************************************)
(* kurtosis_maximum: the search over the voxels of a volume.               *)
(***************************************************************************)
\* The maxima _voxel_kurtosis_maximum may return for a voxel: the mean when
\* there is no local maximum, else the best candidate, or with gtol what
\* the refinements raise it to.
VoxelMaxima(v, sphere, gtol) ==
    With(lower_triangular(v.evecs, v.evals), LAMBDA dt :
    With(mean_diffusivity(v.evals), LAMBDA md :
    With(CoarseKurtosis(dt, md, v.kt, sphere), LAMBDA akc :
    With(local_maxima(akc, sphere.edges), LAMBDA ind :
    IF ind = {} THEN {NoMaximum(akc, sphere)[1]}
    ELSE With(CHOOSE m \in {akc[i] : i \in ind} :
                  \A i \in ind : akc[i] <= m, LAMBDA max_value :
         IF gtol = None THEN {max_value}
         ELSE {RefineUpdate(max_value, Zeros3,
                            RefinedKurtosis(dt, md, v.kt, k_dir),
                            k_dir).max_value : k_dir \in RefineDirs})))))

\* SearchMask with the mask of the caller alone.
SearchMask_of_caller_alone(volume, mask) ==
    [idx \in DOMAIN volume |-> mask = None \/ Val(mask)[idx]]

\* The voxels searched: mask = np.ones(shape) when none is given, then
\* mask = np.logical_and(mask, pos_evals).
SearchMask(volume, mask) ==
    [idx \in DOMAIN volume |->
        /\ mask = None \/ Val(mask)[idx]
        /\ _positive_evals(volume[idx].evals[0], volume[idx].evals[1],
                           volume[idx].evals[2])]

\* The loop over the voxels from idx on: a voxel off the mask is passed
\* over, the maximum found for any other is stored at its index.
\* searched lists the voxels _voxel_kurtosis_maximum was called for.
RECURSIVE SearchLoop(_, _, _, _, _, _)
SearchLoop(volume, mask, found, idx, kt_max, searched) ==
    IF idx > Len(volume) THEN [kt_max |-> kt_max, searched |-> searched]
    ELSE IF ~mask[idx]
    THEN SearchLoop(volume, mask, found, idx + 1, kt_max, searched)
    ELSE SearchLoop(volume, mask, found, idx + 1,
                    [kt_max EXCEPT ![idx] = found[idx]],
                    Append(searched, idx))

\* kurtosis_maximum on a volume; found[idx] is what the search of voxel
\* idx returns.
kurtosis_maximum(volume, mask, selected, found) ==
    IF mask # None /\ Len(Val(mask)) # Len(volume)
    THEN [raised |-> Raise("ValueError"), searched |-> <<>>]
    ELSE [raised |-> None]
         @@ SearchLoop(volume, selected, found, 1,
                       [idx \in DOMAIN volume |-> 0], <<>>)

\* The number of voxels of a volume.
VolumeSize == 2

\* The voxels of the volumes: the smallest eigenvalue at the threshold of
\* _positive_evals or above it, and two kurtosis tensors.
VolumeVoxels ==
    [evals : {ZeroBased(<<20, 6, PosEr>>), ZeroBased(<<20, 6, PosEr + 2>>)},
     evecs : {CanonicalBasis},
     kt : {KtOf(X4Shape, MaxKt), KtOf(MixedShape, 1)}]

Volumes == [1..VolumeSize -> VolumeVoxels]

\* The masks of the caller: none, one of the shape of the volume, or one
\* of one voxel less.
VolumeMasks ==
    {None} \cup {Some(m) : m \in [1..VolumeSize -> BOOLEAN]}
    \cup {Some([idx \in 1..(VolumeSize - 1) |-> TRUE])}

\* What the searches of the voxels selected may return.
Found(volume, selected, sphere, gtol) ==
    With({idx \in DOMAIN volume : selected[idx]}, LAMBDA S :
    With([idx \in S |-> VoxelMaxima(volume[idx], sphere, gtol)],
         LAMBDA maxima :
    {f \in [S -> UNION {maxima[idx] : idx \in S}] :
        \A idx \in S : f[idx] \in maxima[idx]}))

KurtosisMaximum ==
    /\ km = KmIdle
    /\ \E volume \in Volumes, mask \in VolumeMasks, sphere \in Spheres,
          gtol \in Gtols :
         \E selected \in {IF mask # None /\ Len(Val(mask)) # Len(volume)
                          THEN [idx \in DOMAIN volume |-> FALSE]
                          ELSE SearchMask(volume, mask)} :
           \E found \in Found(volume, selected, sphere, gtol) :
             km' = [pc |-> "returned", volume |-> volume, mask |-> mask,
                    sphere |-> sphere, gtol |-> gtol]
                   @@ kurtosis_maximum(volume, mask, selected, found)
    /\ UNCHANGED <<call, modelVars>>

\* The caller takes what was returned.
ReturnMaximum ==
    /\ km.pc \in {"done", "returned"}
    /\ km' = KmIdle
    /\ UNCHANGED <<call, modelVars>>

NextSearch ==
    \/ KurtosisMaximum
    \/ VoxelKurtosisMaximum
    \/ RefineCandidate
    \/ ReturnMaximum

(***************************************************************************)
(* DiffusionKurtosisModel: construction and the fit methods.  The fits are *)
(* modelled by their control flow and by the diagnostics ("extra") they    *)
(* produce, not by their numbers.                                          *)
(***************************************************************************)
LowerLetters ==
    <<"a", "b", "c", "d", "e", "f", "g", "h", "i", "j", "k", "l", "m", "n",
      "o", "p", "q", "r", "s", "t", "u", "v", "w", "x", "y", "z">>

UpperLetters ==
    <<"A", "B", "C", "D", "E", "F", "G", "H", "I", "J", "K", "L", "M", "N",
      "O", "P", "Q", "R", "S", "T", "U", "V", "W", "X", "Y", "Z">>

\* str.upper(), on a string held as the sequence of its characters.
UpperChar(c) ==
    IF \E i \in DOMAIN LowerLetters : LowerLetters[i] = c
    THEN UpperLetters[CHOOSE i \in DOMAIN LowerLetters : LowerLetters[i] = c]
    ELSE c

upper(str) == [i \in DOMAIN str |-> UpperChar(str[i])]

\* The strategy function of each common fit method.
common_fit_methods ==
    (<<"W", "L", "S">> :> "ls_fit_dki")
    @@ (<<"W", "L", "L", "S">> :> "ls_fit_dki")
    @@ (<<"L", "S">> :> "ls_fit_dki")
    @@ (<<"L", "L", "S">> :> "ls_fit_dki")
    @@ (<<"O", "L", "S">> :> "ls_fit_dki")
    @@ (<<"O", "L", "L", "S">> :> "ls_fit_dki")
    @@ (<<"N", "L", "S">> :> "nlls_fit_tensor")
    @@ (<<"N", "L", "L", "S">> :> "nlls_fit_tensor")
    @@ (<<"R", "E", "S", "T", "O", "R", "E">> :> "restore_fit_tensor")
    @@ (<<"I", "R", "L", "S">> :> "iterative_fit_tensor")
    @@ (<<"R", "W", "L", "S">> :> "robust_fit_tensor_wls")
    @@ (<<"R", "N", "L", "L", "S">> :> "robust_fit_tensor_nlls")
    @@ (<<"C", "L", "S">> :> "cls_fit_dki")
    @@ (<<"C", "W", "L", "S">> :> "cls_fit_dki")

\* MIN_POSITIVE_SIGNAL of dipy.reconst.dti, the unit of the signal.
MIN_POSITIVE_SIGNAL == 1

\* A keyword argument dictionary is a function on its keys; the value of
\* convexity_level is tagged with its type.
NoKwargs == [k \in {} |-> 0]

Pop(kwargs, key) == [k \in (DOMAIN kwargs) \ {key} |-> kwargs[k]]

FullLevel == [type |-> "str", str |-> "full"]

IntLevel(n) == [type |-> "int", int |-> n]

\* dipy.data.load_sdp_constraints: the constraint basis kept under the
\* model name and the order.
load_sdp_constraints(model_name, order) ==
    [model_name |-> model_name, order |-> order]

\* The convexity_level branch of __init__: the level kept and the basis
\* loaded for it, or ValueError.
ConvexityLevel(kwargs) ==
    With(IF "convexity_level" \in DOMAIN kwargs THEN kwargs["convexity_level"]
         ELSE FullLevel, LAMBDA convexity_level :
    IF convexity_level.type = "str"
    THEN IF convexity_level.str = "full"
         THEN [raised |-> None, convexity_level |-> convexity_level,
               warned |-> FALSE,
               sdp_constraints |-> load_sdp_constraints("dki", None)]
         ELSE [raised |-> Raise("ValueError")]
    ELSE IF convexity_level.int < 0 \/ convexity_level.int % 2 # 0
    THEN [raised |-> Raise("ValueError")]
    ELSE IF convexity_level.int > 4
    THEN [raised |-> None, convexity_level |-> IntLevel(4), warned |-> TRUE,
          sdp_constraints |-> load_sdp_constraints("dki", Some(4))]
    ELSE [raised |-> None, convexity_level |-> convexity_level,
          warned |-> FALSE,
          sdp_constraints |->
              load_sdp_constraints("dki", Some(convexity_level.int))])

\* The argument fit_method of __init__ is in the set of names given.
NameIn(fit_method, names) == ~fit_method.callable /\ fit_method.name \in names

\* __init__ from the design matrix on: the checks before it have passed.
InitFromDesignMatrix(fit_method, kwargs, min_signal, steps, strategy) ==
    With(NameIn(fit_method, {<<"C", "L", "S">>, <<"C", "W", "L", "S">>,
                             <<"N", "L", "S">>}), LAMBDA convexity_constraint :
    With(IF convexity_constraint THEN ConvexityLevel(kwargs)
         ELSE [raised |-> None], LAMBDA level :
    IF level.raised # None
    THEN [raised |-> level.raised,
          steps |-> steps \o <<"design_matrix", "convexity_level">>]
    ELSE With(IF convexity_constraint
              THEN Pop(Pop(kwargs, "cvxpy_solver"), "convexity_level")
              ELSE kwargs, LAMBDA kw :
         With("weights_method" \in DOMAIN kw, LAMBDA is_iter_method :
         [raised |-> None,
          steps |-> steps \o <<"design_matrix">>
                    \o (IF convexity_constraint THEN <<"convexity_level">>
                        ELSE <<>>)
                    \o <<"extra">>,
          warned |-> convexity_constraint /\ level.warned,
          self |->
            [common_fit_method |-> ~fit_method.callable,
             fit_method |-> strategy,
             min_signal |-> min_signal,
             convexity_constraint |-> convexity_constraint,
             convexity_level |-> IF convexity_constraint
                                 THEN Some(level.convexity_level) ELSE None,
             sdp_constraints |-> IF convexity_constraint
                                 THEN Some(level.sdp_constraints) ELSE None,
             weights |-> NameIn(fit_method,
                                {<<"W", "L", "S">>, <<"W", "L", "L", "S">>,
                                 <<"C", "W", "L", "S">>}),
             is_multi_method |->
                 NameIn(fit_method,
                        {<<"W", "L", "S">>, <<"W", "L", "L", "S">>,
                         <<"L", "S">>, <<"L", "L", "S">>, <<"O", "L", "S">>,
                         <<"O", "L", "L", "S">>, <<"C", "L", "S">>,
                         <<"C", "W", "L", "S">>}),
             is_iter_method |-> is_iter_method,
             kwargs |-> IF "num_iter" \notin DOMAIN kw /\ is_iter_method
                        THEN kw @@ ("num_iter" :> 4) ELSE kw,
             extra |-> NoKwargs]]))))

\* The check of min_signal, with the floor of a strictly positive value
\* mistaken for that of a non-negative one.
MinSignalRaises_negative_only(min_signal) ==
    min_signal # None /\ Val(min_signal) < 0

\* elif self.min_signal <= 0: raise ValueError
MinSignalRaises(min_signal) == min_signal # None /\ Val(min_signal) <= 0

\* DiffusionKurtosisModel.__init__(gtab, fit_method=..., **kwargs), for a
\* gradient table that has enough b-values or not: the exception raised or
\* the object built, and the steps taken.  The strategy is None for a
\* callable fit_method, which leaves self.fit_method unset.
DiffusionKurtosisModel__init__(enough_b, fit_method, kwargs) ==
    IF ~enough_b
    THEN [raised |-> Raise("ValueError"), steps |-> <<"check_multi_b">>]
    ELSE IF ~fit_method.callable
            /\ upper(fit_method.name) \notin DOMAIN common_fit_methods
    THEN [raised |-> Raise("ValueError"),
          steps |-> <<"check_multi_b", "common_fit_methods">>]
    ELSE With(IF "min_signal" \in DOMAIN kwargs THEN kwargs["min_signal"]
              ELSE None, LAMBDA min_signal :
         IF MinSignalRaises(min_signal)
         THEN [raised |-> Raise("ValueError"),
               steps |-> <<"check_multi_b", "common_fit_methods",
                           "min_signal">>]
         ELSE InitFromDesignMatrix(
                  fit_method, Pop(kwargs, "min_signal"),
                  IF min_signal = None THEN MIN_POSITIVE_SIGNAL
                  ELSE Val(min_signal),
                  <<"check_multi_b", "common_fit_methods", "min_signal">>,
                  IF fit_method.callable THEN None
                  ELSE Some(common_fit_methods[upper(fit_method.name)])))

\* A diagnostic: the fit call that produced it, and what it holds.
Diag(id, value) == [call |-> id, value |-> value]

\* The argument weights of the least-squares routines: False, True, or
\* an array.
WeightsArgs == {"False", "True", "array"}

\* W of the routines: the square roots of the weights given, else the
\* signal an ordinary fit predicts.
SqrtWeights(weights) ==
    IF weights = "array" THEN "diag(sqrt(weights))"
    ELSE "diag(exp(A inverse_design_matrix y))"

\* np.einsum("ij,ji->i", design_matrix, inverse): one entry for each of the
\* g rows of the design matrix, the diagonal of the product.
Einsum(g, inverse) == [i \in 1..g |-> [diagonal |-> i, inverse |-> inverse]]

\* The local leverages of ls_fit_dki before it is wrapped: unbound (None)
\* without return_leverages.
LsLeverages(g, weights, return_leverages) ==
    IF weights # "False"
    THEN (IF return_leverages
          THEN Some(Einsum(g, <<"pinv(W A) W", SqrtWeights(weights)>>))
          ELSE None)
    ELSE (IF return_leverages
          THEN Some(Einsum(g, <<"inverse_design_matrix">>))
          ELSE None)

\* The local leverages of cls_fit_dki before it is wrapped: they are
\* assigned in the branch of weights that is not False only.
ClsLeverages(g, weights, return_leverages) ==
    IF weights # "False"
    THEN (IF return_leverages
          THEN Some(Einsum(g, <<"pinv(W A) W", SqrtWeights(weights)>>))
          ELSE None)
    ELSE None

\* if return_leverages: leverages = {"leverages": leverages}
\* else: leverages = None.  Reading the unbound local is an
\* UnboundLocalError.
WrapLeverages(leverages, return_leverages) ==
    IF ~return_leverages THEN [raised |-> None, leverages |-> None]
    ELSE IF leverages = None
    THEN [raised |-> Raise("UnboundLocalError"), leverages |-> None]
    ELSE [raised |-> None, leverages |-> Some("leverages" :> Val(leverages))]

\* The least-squares routine called on g observations: the exception it
\* raises or the diagnostics it returns.
LeastSquares(routine, g, weights, return_leverages) ==
    WrapLeverages(IF routine = "cls_fit_dki"
                  THEN ClsLeverages(g, weights, return_leverages)
                  ELSE LsLeverages(g, weights, return_leverages),
                  return_leverages)

\* The diagnostics ls_fit_dki returns to multi_fit:
\* leverages = {"leverages": leverages} if return_leverages else None.
ls_fit_dki(kwargs, id) ==
    IF "return_leverages" \in DOMAIN kwargs /\ kwargs["return_leverages"]
    THEN Some("leverages" :> Diag(id, Some("leverages")))
    ELSE None

\* What cls_fit_dki returns to multi_fit: the diagnostics of ls_fit_dki
\* where it returns any.
cls_fit_dki(kwargs, id) ==
    With(LeastSquares("cls_fit_dki", 1, kwargs["weights"],
                      "return_leverages" \in DOMAIN kwargs
                      /\ kwargs["return_leverages"]), LAMBDA r :
    [raised |-> r.raised,
     extra |-> IF r.raised = None THEN ls_fit_dki(kwargs, id) ELSE None])

\* The decorator multi_voxel_fit of dipy.reconst.multi_voxel, on data of
\* several voxels: a mask that has not the shape of the data is a
\* ValueError; else the decorated method runs and what it returns is
\* returned.
multi_voxel_fit(mask, fitted) ==
    IF mask = Some("bad_shape")
    THEN [raised |-> Raise("ValueError"), extra |-> None, handed |-> {}]
    ELSE fitted

\* data[mask] of numpy: the voxels the mask marks, all of them for no mask;
\* the mask "ok" marks the first voxel only.
Masked(values, mask) == IF mask = None THEN values ELSE SubSeq(values, 1, 1)

\* The arrays multi_voxel_fit calls the decorated method with: data of one
\* voxel as it is, data of several voxels one voxel of the mask at a time.
VoxelArrays(data, mask) ==
    IF data.ndim1 THEN {data.values}
    ELSE {<<data.values[i]>> : i \in DOMAIN Masked(data.values, mask)}

\* multi_fit: the strategy of a multi-voxel method is ls_fit_dki or
\* cls_fit_dki, called with the data and keyword arguments given.  handed
\* is the set of the signal arrays the strategy was called with.
multi_fit(self, data, mask, kwargs, id) ==
    multi_voxel_fit(mask,
        (IF self.fit_method = Some("cls_fit_dki") THEN cls_fit_dki(kwargs, id)
         ELSE [raised |-> None, extra |-> ls_fit_dki(kwargs, id)])
        @@ [handed |-> VoxelArrays(data, mask)])

LogEntry(fn, rdx) == [fn |-> fn, rdx |-> rdx]

\* An array element, by the call that made it and the round of that call.
Made(by, rdx) == [by |-> by, rdx |-> rdx]

\* cond = mask == 1: the voxels of the mask, every voxel for no mask.
Cond(values, mask) == DOMAIN Masked(values, mask)

\* array[cond] of numpy.
AtCond(array, cond) == [i \in cond |-> array[i]]

\* The arrays of iterative_fit before round 2: w = True and robust = None
\* are no arrays, no fit has returned parameters or leverages, and no call
\* is made.
NoArrays == [w |-> <<>>, robust |-> <<>>, tmp |-> 0, leverages |-> 0,
             calls |-> <<>>]

\* FullSizedArrays with the robust flags set over the whole volume.
FullSizedArrays_all_set(values, mask, rdx) ==
    [w |-> [i \in DOMAIN values |-> Made("ones_like", rdx)],
     robust |-> [i \in DOMAIN values |-> Made("robust[cond] = 1", rdx)]]

\* The full-sized arrays for w and robust under a mask: w = np.ones_like,
\* robust = np.zeros_like, robust[cond] = 1.
FullSizedArrays(values, mask, rdx) ==
    [w |-> [i \in DOMAIN values |-> Made("ones_like", rdx)],
     robust |-> [i \in DOMAIN values |->
                    IF i \in Cond(values, mask)
                    THEN Made("robust[cond] = 1", rdx)
                    ELSE Made("zeros_like", rdx)]]

\* WeightsMethodCall with the leverages of the first fit in every round.
WeightsMethodCall_first_leverages(values, mask, arrays, rdx, TDX) ==
    [fn |-> "weights_method", data |-> AtCond(values, Cond(values, mask)),
     pred_sig |-> Made("predict", arrays.tmp),
     leverages |-> Made("multi_fit", 1),
     rdx |-> rdx, TDX |-> TDX,
     robust |-> IF arrays.robust = <<>> THEN <<>>
                ELSE AtCond(arrays.robust, Cond(values, mask))]

\* The call of weights_method in round rdx: data_thres[cond], pred_sig[cond],
\* leverages[cond], rdx, TDX, robust[cond].  pred_sig is predicted from the
\* parameters of the last fit, leverages are those of the last fit.
WeightsMethodCall(values, mask, arrays, rdx, TDX) ==
    [fn |-> "weights_method", data |-> AtCond(values, Cond(values, mask)),
     pred_sig |-> Made("predict", arrays.tmp),
     leverages |-> Made("multi_fit", arrays.leverages),
     rdx |-> rdx, TDX |-> TDX,
     robust |-> IF arrays.robust = <<>> THEN <<>>
                ELSE AtCond(arrays.robust, Cond(values, mask))]

\* w and robust after weights_method returned in round rdx.  Under a mask
\* w[cond] is assigned, and robust[cond] if robust_mask is not None; with
\* no mask w and robust are what weights_method returned.
Reweighted(values, mask, arrays, robust_mask, rdx) ==
    [w |-> [i \in DOMAIN values |->
               IF i \in Cond(values, mask) THEN Made("weights_method", rdx)
               ELSE arrays.w[i]],
     robust |-> IF robust_mask # None
                THEN [i \in DOMAIN values |->
                         IF i \in Cond(values, mask)
                         THEN Made(Val(robust_mask), rdx)
                         ELSE arrays.robust[i]]
                ELSE IF mask # None THEN arrays.robust ELSE <<>>]

\* The update of the weights of round rdx > 1: the arrays and the calls made.
UpdateWeights(values, mask, arrays, robust_mask, rdx, TDX) ==
    With(IF rdx = 2 /\ mask # None
         THEN FullSizedArrays(values, mask, rdx) @@ arrays
         ELSE arrays, LAMBDA full :
    Reweighted(values, mask, full, robust_mask, rdx)
    @@ [calls |-> arrays.calls
                  \o <<[fn |-> "predict", rdx |-> rdx,
                        model_params |-> Made("multi_fit", arrays.tmp)],
                       WeightsMethodCall(values, mask, full, rdx, TDX)>>]
    @@ arrays)

\* tmp, extra = self.multi_fit(data_thres, mask=mask, weights=w,
\* return_leverages=True); leverages = extra["leverages"]
Refitted(arrays, w, rdx) ==
    [tmp |-> rdx, leverages |-> rdx,
     calls |-> arrays.calls
               \o <<[fn |-> "multi_fit", rdx |-> rdx, weights |-> w,
                     array |-> arrays.w]>>]
    @@ arrays

\* The rounds rdx..TDX of iterative_fit.  choices[rdx - 1] is the robust
\* mask weights_method returns in round rdx: None, or a mask.
RECURSIVE IterRounds(_, _, _, _, _, _, _, _, _, _, _)
IterRounds(self, data_thres, mask, rdx, TDX, w, robust, log, choices, id, arrays) ==
    IF rdx > TDX
    THEN [raised |-> None, log |-> log, robust |-> robust,
          extra |-> Some("robust" :> Diag(id, robust)), handed |-> {},
          arrays |-> arrays]
    ELSE With(IF rdx > 1
              THEN With(IF rdx = 2 /\ mask # None THEN Some("all_true")
                        ELSE robust, LAMBDA robust0 :
                   With(choices[rdx - 1], LAMBDA robust_mask :
                   [w |-> "array",
                    robust |-> IF mask # None
                               THEN (IF robust_mask # None THEN robust_mask
                                     ELSE robust0)
                               ELSE robust_mask,
                    log |-> log \o <<LogEntry("predict", rdx),
                                     LogEntry("weights_method", rdx)>>,
                    arrays |-> UpdateWeights(data_thres.values, mask, arrays,
                                             robust_mask, rdx, TDX)]))
              ELSE [w |-> w, robust |-> robust, log |-> log,
                    arrays |-> arrays], LAMBDA u :
         With(multi_fit(self, data_thres, mask,
                        ("weights" :> u.w) @@ ("return_leverages" :> TRUE),
                        id),
              LAMBDA r :
         IF r.raised # None
         THEN [raised |-> r.raised, robust |-> u.robust, extra |-> None,
               log |-> u.log \o <<LogEntry("multi_fit", rdx)>>,
               handed |-> r.handed, arrays |-> Refitted(u.arrays, u.w, rdx)]
         ELSE [IterRounds(self, data_thres, mask, rdx + 1, TDX, u.w, u.robust,
                          u.log \o <<LogEntry("multi_fit", rdx)>>, choices,
                          id, Refitted(u.arrays, u.w, rdx))
               EXCEPT !.handed = @ \cup r.handed]))

\* iterative_fit with the check of num_iter off by one.
iterative_fit_from_one(self, data_thres, mask, num_iter, choices, id) ==
    IF num_iter < 1
    THEN [raised |-> Raise("ValueError"), log |-> <<>>, robust |-> None,
          extra |-> None, handed |-> {}, arrays |-> NoArrays]
    ELSE IterRounds(self, data_thres, mask, 1, num_iter, "True", None, <<>>,
                    choices, id, NoArrays)

iterative_fit(self, data_thres, mask, num_iter, choices, id) ==
    IF num_iter < 2
    THEN [raised |-> Raise("ValueError"), log |-> <<>>, robust |-> None,
          extra |-> None, handed |-> {}, arrays |-> NoArrays]
    ELSE IterRounds(self, data_thres, mask, 1, num_iter, "True", None, <<>>,
                    choices, id, NoArrays)

\* self.fit_method(self.design_matrix, data, return_S0_hat=..., *self.args,
\* **self.kwargs) of the paths of fit that do not go through multi_fit:
\* the attribute is unset after a callable fit_method, ls_fit_dki and
\* cls_fit_dki lack their argument inverse_design_matrix, and a strategy of
\* dipy.reconst.dti ends as ext: an exception, or diagnostics or None.
StrategyCall(self, values, ext) ==
    IF self.fit_method = None
    THEN [raised |-> Raise("AttributeError"), extra |-> None, handed |-> {}]
    ELSE IF Val(self.fit_method) \in {"ls_fit_dki", "cls_fit_dki"}
    THEN [raised |-> Raise("TypeError"), extra |-> None, handed |-> {values}]
    ELSE ext @@ [handed |-> {values}]

\* if extra is not None: self.extra = extra
StoreExtra_never(self, extra) == self

StoreExtra(self, extra) ==
    IF extra # None THEN [self EXCEPT !.extra = Val(extra)] ELSE self

\* if extra is not None: for key in extra: self.extra[key] = extra[key]
MergeExtra(self, extra) ==
    IF extra # None THEN [self EXCEPT !.extra = Val(extra) @@ self.extra]
    ELSE self

FitResult(path, r, self) ==
    [raised |-> r.raised, path |-> path, extra |-> r.extra, self |-> self,
     handed |-> r.handed]

\* np.maximum(data, self.min_signal) with the floor mistaken for zero.
Threshold_at_zero(values, min_signal) ==
    [i \in DOMAIN values |-> Max2(values[i], 0)]

\* np.maximum(data, self.min_signal)
Threshold(values, min_signal) ==
    [i \in DOMAIN values |-> Max2(values[i], min_signal)]

\* DiffusionKurtosisModel.fit(data, mask=mask) for data of one voxel
\* (ndim1) or of several: the exception raised or the diagnostics the
\* strategy returned, and the object after the call.
fit(self, ndim1, data, mask, ext, choices, id) ==
    With([ndim1 |-> ndim1, values |-> Threshold(data, self.min_signal)],
         LAMBDA data_thres :
    IF self.is_multi_method /\ ~self.is_iter_method
    THEN With(multi_fit(self, data_thres, mask,
                        ("weights" :> IF self.weights THEN "True"
                                      ELSE "False") @@ self.kwargs, id),
              LAMBDA r :
         FitResult("multi_fit", r, StoreExtra(self, r.extra))
         @@ [log |-> <<>>])
    ELSE IF self.is_multi_method /\ self.is_iter_method
    THEN With(iterative_fit(self, data_thres, mask, self.kwargs["num_iter"],
                            choices, id),
              LAMBDA r :
         FitResult("iterative_fit", r, StoreExtra(self, r.extra))
         @@ [log |-> r.log])
    ELSE IF ndim1
    THEN With(StrategyCall(self, data_thres.values, ext), LAMBDA r :
         FitResult("single_voxel", r, MergeExtra(self, r.extra))
         @@ [log |-> <<>>])
    ELSE IF mask = Some("bad_shape")
    THEN [raised |-> Raise("ValueError"), path |-> "masked", extra |-> None,
          self |-> self, log |-> <<>>, handed |-> {}]
    ELSE With(Threshold(Masked(data, mask), self.min_signal),
              LAMBDA data_in_mask :
         With(StrategyCall(self, data_in_mask, ext), LAMBDA r :
         FitResult("masked", r, MergeExtra(self, r.extra))
         @@ [log |-> <<>>])))

(***************************************************************************)
(* The inputs of the object's methods.                                     *)
(***************************************************************************)
\* The largest number of fit calls on one object.
MaxFits == 2

\* The largest num_iter drawn for the constructor.
MaxIter == 2

\* The largest num_iter drawn for iterative_fit called by itself.
MaxRounds == 3

Name(str) == [callable |-> FALSE, name |-> str]

\* The fit methods drawn with every combination of the other keyword
\* arguments.
FitMethodArgs ==
    {Name(<<"W", "L", "S">>), Name(<<"w", "l", "s">>), Name(<<"L", "S">>),
     Name(<<"N", "L", "S">>), Name(<<"C", "L", "S">>), Name(<<"U", "L", "L", "S">>),
     [callable |-> TRUE, name |-> <<>>]}

\* The other names of the docstring of the constructor, drawn alone or with
\* a convexity level.
MoreFitMethodArgs ==
    {Name(<<"O", "L", "S">>), Name(<<"W", "L", "L", "S">>),
     Name(<<"U", "W", "L", "L", "S">>), Name(<<"C", "W", "L", "S">>)}

MinSignalKwargs ==
    {NoKwargs} \cup {"min_signal" :> m : m \in {None, Some(-1), Some(0),
                                                 Some(2)}}

IterKwargs ==
    {NoKwargs, "weights_method" :> "weights_method_wls_m_est"}
    \cup {("weights_method" :> "weights_method_wls_m_est")
          @@ ("num_iter" :> n) : n \in 1..MaxIter}

LeverageKwargs == {NoKwargs, "return_leverages" :> TRUE}

ConvexityKwargs ==
    {"convexity_level" :> l :
        l \in {[type |-> "str", str |-> "half"], FullLevel}
              \cup {IntLevel(n) : n \in -2..6}}

\* The keyword arguments drawn with a fit method: a convexity level only
\* with a constrained method.
KwargsFor(fit_method) ==
    (IF fit_method \in FitMethodArgs
     THEN {a @@ b @@ c :
              a \in MinSignalKwargs, b \in IterKwargs, c \in LeverageKwargs}
     ELSE {NoKwargs})
    \cup (IF NameIn(fit_method, {<<"C", "L", "S">>, <<"C", "W", "L", "S">>,
                                 <<"N", "L", "S">>})
          THEN ConvexityKwargs ELSE {})

Masks == {None, Some("ok"), Some("bad_shape")}

\* The signals of a fit: one of each of four voxels, or the four of one
\* voxel.  They are negative, zero, MIN_POSITIVE_SIGNAL and above every
\* min_signal drawn.
DataArrays == {<<-1, 0, MIN_POSITIVE_SIGNAL, 3>>}

\* The robust mask weights_method returns.
RobustMasks == {None, Some("rejects")}

\* The ways a strategy of dipy.reconst.dti ends in call id: it rejects
\* its arguments, or returns no diagnostics, or some.
ExternalResults(id) ==
    {[raised |-> Raise("TypeError"), extra |-> None]}
    \cup {[raised |-> None, extra |-> e] :
            e \in {None,
                   Some("robust" :> Diag(id, Some("rejects"))),
                   Some(("leverages" :> Diag(id, Some("leverages")))
                        @@ ("robust" :> Diag(id, Some("all_true"))))}}

NoModel == [alive |-> FALSE]

NoOutcome == [op |-> "none"]

(***************************************************************************)
(* The calls on the object.                                                *)
(***************************************************************************)
Construct ==
    /\ model = NoModel
    /\ outcome = NoOutcome
    /\ \E enough_b \in BOOLEAN,
          fit_method \in FitMethodArgs \cup MoreFitMethodArgs :
         \E kwargs \in KwargsFor(fit_method) :
           \E r \in {DiffusionKurtosisModel__init__(enough_b, fit_method,
                                                      kwargs)} :
               /\ outcome' = [op |-> "__init__", enough_b |-> enough_b,
                              fit_method |-> fit_method, kwargs |-> kwargs,
                              raised |-> r.raised, steps |-> r.steps,
                              warned |-> r.raised = None /\ r.warned]
               /\ model' = IF r.raised = None THEN r.self ELSE NoModel
    /\ ncalls' = 0
    /\ UNCHANGED <<call, km, manager>>

\* The choices of weights_method over the rounds 2..TDX.
Choices(TDX) == [1..(IF TDX > 1 THEN TDX - 1 ELSE 0) -> RobustMasks]

CallFit ==
    /\ model # NoModel
    /\ ncalls < MaxFits
    /\ \E ndim1 \in BOOLEAN, data \in DataArrays,
          ext \in IF model.is_multi_method
                  THEN {[raised |-> None, extra |-> None]}
                  ELSE ExternalResults(ncalls + 1),
          choices \in IF model.is_multi_method /\ model.is_iter_method
                      THEN Choices(model.kwargs["num_iter"])
                      ELSE {<<>>} :
         \E mask \in IF ndim1 /\ model.is_multi_method THEN {None}
                     ELSE Masks :
           \E r \in {fit(model, ndim1, data, mask, ext, choices,
                        ncalls + 1)} :
               /\ outcome' = [op |-> "fit", ndim1 |-> ndim1, data |-> data,
                              mask |-> mask,
                              choices |-> choices, raised |-> r.raised,
                              path |-> r.path, extra |-> r.extra,
                              log |-> r.log, before |-> model.extra,
                              handed |-> r.handed]
               /\ model' = r.self
    /\ ncalls' = ncalls + 1
    /\ UNCHANGED <<call, km, manager>>

\* iterative_fit called with data of several voxels on an object whose
\* strategy multi_fit can run.
CallIterativeFit ==
    /\ model # NoModel
    /\ model.is_multi_method
    /\ ncalls < MaxFits
    /\ \E num_iter \in 0..MaxRounds, mask \in Masks,
          data_thres \in DataArrays :
         \E choices \in Choices(num_iter) :
           \E r \in {iterative_fit(model,
                                    [ndim1 |-> FALSE, values |-> data_thres],
                                    mask, num_iter, choices, ncalls + 1)} :
               outcome' = [op |-> "iterative_fit", num_iter |-> num_iter,
                           mask |-> mask, choices |-> choices,
                           raised |-> r.raised,
                           extra |-> r.extra, robust |-> r.robust,
                           log |-> r.log, weights |-> model.weights,
                           nvoxels |-> Len(data_thres),
                           arrays |-> r.arrays]
    /\ ncalls' = ncalls + 1
    /\ UNCHANGED <<call, km, model, manager>>

\* ls_fit_dki or cls_fit_dki called as a function, on the signals of one
\* voxel.
CallLeastSquares ==
    /\ model = NoModel
    /\ outcome = NoOutcome
    /\ \E routine \in {"ls_fit_dki", "cls_fit_dki"}, data \in DataArrays,
          weights \in WeightsArgs, return_leverages \in BOOLEAN :
         \E r \in {LeastSquares(routine, Len(data), weights,
                                return_leverages)} :
           outcome' = [op |-> "least_squares", routine |-> routine,
                       g |-> Len(data), weights |-> weights,
                       return_leverages |-> return_leverages,
                       raised |-> r.raised, leverages |-> r.leverages]
    /\ UNCHANGED <<call, km, model, ncalls, manager>>

NextModel ==
    \/ CallLeastSquares
    \/ Construct
    \/ CallFit
    \/ CallIterativeFit

(***************************************************************************)
(* The raw form of the parameters: the 6 lower-triangular elements of the  *)
(* diffusion tensor, the 15 kurtosis elements times MD squared, and the    *)
(* intercept -log(S0).  dki_prediction packs it and params_to_dki_params   *)
(* unpacks it.  A raw kurtosis entry is in units of a kurtosis value times *)
(* the square of an eigenvalue unit.                                       *)
(***************************************************************************)
\* Eigenvalues of the tensors packed: multiples of VDen ^ 2, so that the
\* elements of the tensor over every basis drawn are exact.
PackEvalVals == {VDen ^ 2 * e : e \in {1, 2, 5, 9}}

\* Eigenvalues a raw tensor may have: also zero and negative.
RawEvalVals == PackEvalVals \cup {0, -(VDen ^ 2)}

Descending(vals) ==
    {t \in {ZeroBased(<<a, b, c>>) : a \in vals, b \in vals, c \in vals} :
        t[0] >= t[1] /\ t[1] >= t[2]}

\* The orthonormal bases the eigenvectors drawn span: the columns of a
\* basis in any order and of either sign.
SignedBases ==
    {[i \in 0..2 |-> [k \in 0..2 |-> sg[k] * B[i][p[k]]]] :
        B \in Bases,
        p \in {q \in [0..2 -> 0..2] : \A a, b \in 0..2 : q[a] = q[b] => a = b},
        sg \in [0..2 -> {-1, 1}]}

\* dki_prediction that multiplies the kurtosis elements by MD once.
PackRaw_md_once(dki_params) ==
    With(split_dki_param(dki_params), LAMBDA p :
    With(lower_triangular(p.evecs, p.evals), LAMBDA dt :
    With(Div(Div(dt[0] + dt[2] + dt[5], 3), FP), LAMBDA MD :
    [dt |-> dt, k |-> [i \in 0..14 |-> p.kt[i] * MD],
     intercept |-> 0])))

\* dki_prediction: X = (dt, fkt[v] * MD * MD, -np.log(this_S0)) for
\* S0 = 1.0, with DT = evecs diag(evals) evecs^T and MD its trace over 3.
PackRaw(dki_params) ==
    With(split_dki_param(dki_params), LAMBDA p :
    With(lower_triangular(p.evecs, p.evals), LAMBDA dt :
    With(Div(Div(dt[0] + dt[2] + dt[5], 3), FP), LAMBDA MD :
    [dt |-> dt, k |-> [i \in 0..14 |-> p.kt[i] * MD * MD],
     intercept |-> 0])))

\* np.exp in fixed point: the series sum x^k / k!, taken until the term
\* vanishes.
RECURSIVE ExpSeries(_, _, _)
ExpSeries(x, term, k) ==
    IF term = 0 THEN 0
    ELSE term + ExpSeries(x, Div(term * x, k * FP), k + 1)

Exp(x) == ExpSeries(x, FP, 1)

\* The eigen-decompositions in reach: eigenvalues in descending order over
\* an orthonormal basis.
Decompositions == [evals : Descending(RawEvalVals), evecs : SignedBases]

\* Each with the tensor it is a decomposition of.
TensorOf == {<<lower_triangular(c.evecs, c.evals), c>> : c \in Decompositions}

\* decompose_tensor(from_lower_triangular(DT_elements), min_diffusivity) of
\* dipy.reconst.dti: the eigenvalues in descending order, clipped below at
\* min_diffusivity, over any orthonormal basis of eigenvectors; the signs of
\* the eigenvectors, and the basis of the eigenspace of a repeated
\* eigenvalue, are whatever the eigen-solver returns.
decompose_tensor(DT_elements, min_diffusivity) ==
    {[evals |-> [k \in 0..2 |-> ClipMin(e[2].evals[k], min_diffusivity)],
      evecs |-> e[2].evecs] :
        e \in {d \in TensorOf : d[1] = DT_elements}}

\* params_to_dki_params that divides by the square of the mean of the
\* eigenvalues whatever that is.  (The division of 0 by 0 is NaN.)
params_to_dki_params_unguarded(result, dec) ==
    With(dec.evals[0] + dec.evals[1] + dec.evals[2], LAMBDA sum :
    [evals |-> dec.evals, evecs |-> dec.evecs,
     kt |-> [i \in 0..14 |-> IF sum # 0
                             THEN Some(Div(VDen ^ 2 * result.k[i], sum * sum))
                             ELSE NaN],
     S0 |-> Exp(-result.intercept),
     divided |-> TRUE])

\* params_to_dki_params(result, min_diffusivity=...), dec being what
\* decompose_tensor returned: MD_square = evals.mean(0) ** 2 is the square
\* of sum / 3, so result[6:21] / MD_square is 9 * result[6:21] / sum ** 2.
params_to_dki_params(result, dec) ==
    With(dec.evals[0] + dec.evals[1] + dec.evals[2], LAMBDA sum :
    [evals |-> dec.evals, evecs |-> dec.evecs,
     kt |-> [i \in 0..14 |-> IF sum # 0
                             THEN Some(Div(VDen ^ 2 * result.k[i], sum * sum))
                             ELSE Some(0)],
     S0 |-> Exp(-result.intercept),
     divided |-> sum # 0])

(***************************************************************************)
(* The duplication loops of carlson_rf and carlson_rd, pass by pass, for   *)
(* one array element.  An element is NaN or Some(v); a comparison with NaN *)
(* is false.  sum_term of carlson_rd plays no part in the loop condition   *)
(* and is left out.                                                        *)
(***************************************************************************)
\* The largest number of passes followed.
MaxSteps == 8

CarlsonFns == {"carlson_rf", "carlson_rd"}

CarlsonValues == {NaN, Some(0), Some(FP \div 4), Some(FP), Some(4 * FP)}

\* The state of the function when it reaches its loop: n = 0.
CarlsonEntry(fn, x, y, z) ==
    IF NaN \in {x, y, z}
    THEN [op |-> fn, pc |-> "loop", x |-> x, y |-> y, z |-> z,
          xn |-> x, yn |-> y, zn |-> z, An |-> NaN, Q |-> NaN, n |-> 0]
    ELSE With(CarlsonA0(fn, Val(x), Val(y), Val(z)), LAMBDA A0 :
         [op |-> fn, pc |-> "loop", x |-> x, y |-> y, z |-> z,
          xn |-> x, yn |-> y, zn |-> z, An |-> Some(A0),
          Q |-> Some(CarlsonQ(IF fn = "carlson_rf" THEN RfQFactor
                              ELSE RdQFactor, A0, Val(x), Val(y), Val(z))),
          n |-> 0])

\* while 4.0 ** (-n) * Q[v] > abs(An[v])
CarlsonLoopTest(c) ==
    c.An # NaN /\ c.Q # NaN /\ CarlsonCond(Val(c.An), Val(c.Q), c.n)

InCarlsonLoop == call.op \in CarlsonFns /\ call.pc = "loop"

EnterCarlson ==
    /\ call = NoCall
    /\ \E fn \in CarlsonFns, x \in CarlsonValues, y \in CarlsonValues,
          z \in CarlsonValues :
         call' = CarlsonEntry(fn, x, y, z)
    /\ UNCHANGED <<km, modelVars>>

\* One pass of the loop: nothing but the loop test decides it is taken.
CarlsonIterate ==
    /\ InCarlsonLoop
    /\ CarlsonLoopTest(call)
    /\ call.n < MaxSteps
    /\ LET s == CarlsonPass(Val(call.xn), Val(call.yn), Val(call.zn),
                            Val(call.An))
       IN  call' = [call EXCEPT !.xn = Some(s.xn), !.yn = Some(s.yn),
                                !.zn = Some(s.zn), !.An = Some(s.An),
                                !.n = @ + 1]
    /\ UNCHANGED <<km, modelVars>>

\* The loop is left; carlson_rf goes on to its post convergence
\* calculation, which is NaN for NaN input and for An = 0.
CarlsonConverged ==
    /\ InCarlsonLoop
    /\ ~CarlsonLoopTest(call)
    /\ call' = IF call.op = "carlson_rf"
               THEN [call EXCEPT !.pc = "done"]
                    @@ [post |-> IF call.An \in {NaN, Some(0)} THEN NaN
                                 ELSE Some(RfPost(Val(call.xn), Val(call.yn),
                                                  Val(call.zn),
                                                  Val(call.An)))]
               ELSE [call EXCEPT !.pc = "done"]
    /\ UNCHANGED <<km, modelVars>>

CarlsonReturn ==
    /\ call.op \in CarlsonFns
    /\ call.pc = "done"
    /\ call' = NoCall
    /\ UNCHANGED <<km, modelVars>>

NextCarlson ==
    \/ EnterCarlson
    \/ CarlsonIterate
    \/ CarlsonConverged
    \/ CarlsonReturn

(***************************************************************************)
(* Packing and unpacking, one call at a time: dki_prediction packs the     *)
(* parameters of a voxel, and params_to_dki_params unpacks either what was *)
(* packed or the raw solution of a fit.                                    *)
(***************************************************************************)
\* Voxels of positive definite tensors.
PackVoxels == [evals : Descending(PackEvalVals), evecs : Bases, kt : Kts]

\* The floors in use: none above zero, the smallest eigenvalue drawn, and
\* one above it.
MinDiffusivities == {0, VDen ^ 2, 2 * VDen ^ 2}

\* Raw solutions of a fit: the tensor need not be positive definite.
RawResults ==
    [dt : {lower_triangular(B, evals) :
              B \in Bases, evals \in Descending({-(VDen ^ 2), 0, VDen ^ 2})},
     k : {[i \in 0..14 |-> VDen ^ 2 * kt[i]] :
             kt \in {KtOf(IsoShape, 0), KtOf(X4Shape, -MaxKt),
                     KtOf(MixedShape, 1)}},
     intercept : {-FP, 0, FP}]

Unpacked(packed, result, min_diffusivity, dec) ==
    [op |-> "params_to_dki_params", packed |-> packed, result |-> result,
     min_diffusivity |-> min_diffusivity,
     out |-> params_to_dki_params(result, dec)]

CallDkiPrediction ==
    /\ call = NoCall
    /\ \E dki_params \in PackVoxels :
         call' = [op |-> "dki_prediction", dki_params |-> dki_params,
                  X |-> PackRaw(dki_params)]
    /\ UNCHANGED <<km, modelVars>>

\* What dki_prediction packed is unpacked.
UnpackPacked ==
    /\ call.op = "dki_prediction"
    /\ \E min_diffusivity \in MinDiffusivities :
         \E dec \in decompose_tensor(call.X.dt, min_diffusivity) :
            call' = Unpacked(Some(call.dki_params), call.X, min_diffusivity,
                             dec)
    /\ UNCHANGED <<km, modelVars>>

CallParamsToDkiParams ==
    /\ call = NoCall
    /\ \E result \in RawResults, min_diffusivity \in MinDiffusivities :
         \E dec \in decompose_tensor(result.dt, min_diffusivity) :
            call' = Unpacked(None, result, min_diffusivity, dec)
    /\ UNCHANGED <<km, modelVars>>

NextPacking ==
    \/ CallParamsToDkiParams
    \/ CallDkiPrediction
    \/ UnpackPacked
    \/ Return

(***************************************************************************)
(* TabManager of dipy.viz.horizon.tab.base: the tabs of the viewer and the *)
(* synchronization of the slices of its slices tabs.                       *)
(***************************************************************************)
SLICES_TAB == "Slices Tab"

CLUSTERS_TAB == "Clusters Tab"

ROIS_TAB == "ROIs Tab"

PEAKS_TAB == "Peaks Tab"

\* HorizonTab.__init__: a tab knows its type; its slices are not set.
HorizonTab(tab_type) == [tab_type |-> tab_type, slices |-> None]

\* tab.build(id, tab_ui, tab_manager) of the classes of the tabs: the tab
\* keeps the id as its tab_id.
build(tab, id) == [tab_id |-> id] @@ tab

\* slices_tab.update_slices(x_value, y_value, z_value) of the slices tab:
\* the tab shows these slices.
update_slices(tab, x_value, y_value, z_value) ==
    [tab EXCEPT !.slices = Some(<<x_value, y_value, z_value>>)]

\* TabManager.__init__: the tabs are kept in their order and built with
\* their position for id; without synchronization a warning is given.
TabManager__init__(tabs, synchronize_slices) ==
    [_tabs |-> [i \in DOMAIN tabs |-> build(tabs[i], i - 1)],
     _synchronize_slices |-> synchronize_slices,
     warned |-> ~synchronize_slices]

\* SlicesTabs with the active tab among them.
SlicesTabs_with_active(self, active_tab_id) ==
    SelectSeq([i \in DOMAIN self._tabs |-> i],
              LAMBDA i : self._tabs[i].tab_type = SLICES_TAB)

\* slices_tabs = list(filter(lambda x: x.tab_type == SLICES_TAB and not
\* x.tab_id == active_tab_id, self._tabs)), as positions in self._tabs.
SlicesTabs(self, active_tab_id) ==
    SelectSeq([i \in DOMAIN self._tabs |-> i],
              LAMBDA i : /\ self._tabs[i].tab_type = SLICES_TAB
                         /\ ~(self._tabs[i].tab_id = active_tab_id))

\* for slices_tab in slices_tabs: slices_tab.update_slices(...), from the
\* k-th on; updated lists the tab_id of the tabs in the order of the calls.
RECURSIVE UpdateLoop(_, _, _, _, _, _, _)
UpdateLoop(tabs, slices_tabs, k, x_value, y_value, z_value, updated) ==
    IF k > Len(slices_tabs) THEN [_tabs |-> tabs, updated |-> updated]
    ELSE UpdateLoop([tabs EXCEPT ![slices_tabs[k]] =
                        update_slices(@, x_value, y_value, z_value)],
                    slices_tabs, k + 1, x_value, y_value, z_value,
                    Append(updated, tabs[slices_tabs[k]].tab_id))

\* TabManager.syncronize_slices: the tabs after the call, and the calls of
\* update_slices made.
syncronize_slices(self, active_tab_id, x_value, y_value, z_value) ==
    IF ~self._synchronize_slices
    THEN [_tabs |-> self._tabs, updated |-> <<>>]
    ELSE UpdateLoop(self._tabs, SlicesTabs(self, active_tab_id), 1, x_value,
                    y_value, z_value, <<>>)

\* The largest number of tabs, and of calls of syncronize_slices.
MaxTabs == 3

MaxSyncs == 2

TabTypes == {SLICES_TAB, CLUSTERS_TAB, PEAKS_TAB}

TabLists == UNION {[1..n -> TabTypes] : n \in 0..MaxTabs}

\* The slices of a call: x_value, y_value, z_value.
SliceValues == {<<1, 2, 3>>, <<4, 5, 6>>}

NoManager == [alive |-> FALSE]

NoSync == [op |-> "none"]

ConstructTabManager ==
    /\ manager = NoManager
    /\ \E types \in TabLists, synchronize_slices \in BOOLEAN :
         manager' = [alive |-> TRUE, nsync |-> 0, last |-> NoSync]
                    @@ TabManager__init__(
                           [i \in DOMAIN types |-> HorizonTab(types[i])],
                           synchronize_slices)
    /\ UNCHANGED <<call, km, model, outcome, ncalls>>

\* A call of syncronize_slices by a tab of the manager, or with an id no
\* tab has.
SyncronizeSlices ==
    /\ manager # NoManager
    /\ manager.nsync < MaxSyncs
    /\ \E active_tab_id \in 0..Len(manager._tabs), v \in SliceValues :
         \E r \in {syncronize_slices(manager, active_tab_id, v[1], v[2],
                                      v[3])} :
           manager' = [manager EXCEPT
                          !._tabs = r._tabs,
                          !.nsync = @ + 1,
                          !.last = [op |-> "syncronize_slices",
                                    active_tab_id |-> active_tab_id,
                                    slices |-> Some(v),
                                    before |-> manager._tabs,
                                    updated |-> r.updated]]
    /\ UNCHANGED <<call, km, model, outcome, ncalls>>

NextTabs ==
    \/ ConstructTabManager
    \/ SyncronizeSlices

(***************************************************************************)
(* Specifications.                                                         *)
(***************************************************************************)
Init ==
    /\ call = NoCall
    /\ km = KmIdle
    /\ model = NoModel
    /\ outcome = NoOutcome
    /\ ncalls = 0
    /\ manager = NoManager

\* The coefficient functions and the rotation of one tensor element,
\* called one at a time.
SpecCoefficients == Init /\ [][NextCoefficients]_vars

\* The duplication loops of the Carlson integrals, pass by pass.
SpecCarlson == Init /\ [][NextCarlson]_vars

\* Packing and unpacking of the parameters of one voxel.
SpecPacking == Init /\ [][NextPacking]_vars

\* The kurtosis metrics of one voxel, called one at a time.
SpecMetrics == Init /\ [][NextMetrics]_vars

\* The search of the kurtosis maximum of one voxel.
SpecSearch == Init /\ [][NextSearch]_vars

\* The life of one DiffusionKurtosisModel object: it is built, and fit.
SpecModel == Init /\ [][NextModel]_vars

\* The tabs of the viewer: the manager is built, and slices are moved.
SpecTabs == Init /\ [][NextTabs]_vars

\* The whole module.
Next ==
    \/ NextCoefficients \/ NextCarlson \/ NextPacking \/ NextMetrics
    \/ NextSearch \/ NextModel \/ NextTabs

Spec == Init /\ [][Next]_vars

(***************************************************************************)
(* Properties of the functions of the module: C1, C4 and C5 are checked    *)
(* under SpecCoefficients, C2 and C3 under SpecMetrics.                    *)
(***************************************************************************)
Quadruples == {<<i, j, k, l>> : i \in 0..2, j \in 0..2, k \in 0..2, l \in 0..2}

KeyOf(q) == CanonicalKey(q[1], q[2], q[3], q[4])

\* q1 is a permutation of q2: every index occurs as often in both.
IsPermutation(q1, q2) ==
    \A v \in 0..2 : Cardinality({n \in 1..4 : q1[n] = v})
                    = Cardinality({n \in 1..4 : q2[n] = v})

\* C1: the canonical key takes exactly 15 values over the 81 index
\* quadruples, each of them is a key of the table ind_ele that
\* Wrotate_element reads, the table maps them one-to-one onto the slots
\* 0..14, and two quadruples have the same key exactly when one is a
\* permutation of the other.
C1_CanonicalKeySlots ==
    call.op = "Wrotate_element" =>
        LET keys == {KeyOf(q) : q \in Quadruples}
        IN  /\ Cardinality(keys) = 15
            /\ keys \subseteq DOMAIN call.table
            /\ {call.table[k] : k \in keys} = 0..14
            /\ \A k1 \in keys, k2 \in keys :
                   call.table[k1] = call.table[k2] => k1 = k2
            /\ \A q1 \in Quadruples, q2 \in Quadruples :
                   KeyOf(q1) = KeyOf(q2) <=> IsPermutation(q1, q2)

\* A rotation to an element of mixed indices in the oblique basis, whose 81
\* terms read every slot of the table, has returned a non-zero value.
C1_Witness ==
    /\ call.op = "Wrotate_element"
    /\ call.ind = <<0, 1, 2, 2>>
    /\ call.B = ObliqueBasis
    /\ call.ret # 0

\* C2: for a pair min_kurtosis <= max_kurtosis, the value each of the five
\* clipped metrics returns lies in [min_kurtosis, max_kurtosis], by either
\* method.
C2_MetricWithinClipBounds ==
    ( /\ call.op \in ClippedMetrics
      /\ call.min_kurtosis # None
      /\ call.max_kurtosis # None
      /\ Val(call.min_kurtosis) <= Val(call.max_kurtosis) )
    => /\ Val(call.min_kurtosis) <= call.ret
       /\ call.ret <= Val(call.max_kurtosis)

\* A numerical mean kurtosis above max_kurtosis has been clipped to it.
C2_Witness ==
    /\ call.op = "mean_kurtosis"
    /\ ~call.analytical
    /\ call.min_kurtosis # None
    /\ call.max_kurtosis # None
    /\ Val(call.min_kurtosis) <= Val(call.max_kurtosis)
    /\ call.raw > Val(call.max_kurtosis)
    /\ call.ret = Val(call.max_kurtosis)

\* The voxel has an eigenvalue that is not above 2e-7.
Gated(dki_params) ==
    ~_positive_evals(dki_params.evals[0], dki_params.evals[1],
                     dki_params.evals[2])

GatedToZero ==
    /\ call.raw = 0
    /\ call.ret = ClipKurtosis(0, call.min_kurtosis, call.max_kurtosis)

CoefFunctions == {"_F1m", "_F2m", "_G1m", "_G2m"}

\* C4: F1, F2, G1 and G2 return exactly 0 for a triplet with a value not
\* above 2e-7, and no mask holds for it: neither the elliptic integrals nor
\* a closed form is evaluated.
C4_CoefGate ==
    (call.op \in CoefFunctions /\ ~_positive_evals(call.a, call.b, call.c))
    => (call.ret = 0 /\ call.conds = {})

\* F1 on the isotropic triplet at the threshold itself.
C4_Witness ==
    /\ call.op = "_F1m"
    /\ call.a = PosEr /\ call.b = PosEr /\ call.c = PosEr
    /\ call.ret = 0
    /\ call.conds = {}

IsotropicCall(op) == call.op = op /\ call.a = call.b /\ call.b = call.c

\* C5 as stated: F1(a,a,a) = 1/5 and F2(a,a,a) = 6/15 for any a > 0.
C5_IsotropicAnyPositive ==
    /\ (IsotropicCall("_F1m") /\ call.a > 0) => call.ret = FP \div 5
    /\ (IsotropicCall("_F2m") /\ call.a > 0) => call.ret = (6 * FP) \div 15

\* C5 (amended): F1(a,a,a) = 1/5 and F2(a,a,a) = 6/15 for any a above the
\* threshold 2e-7 of _positive_evals.
C5_IsotropicAboveThreshold ==
    /\ (IsotropicCall("_F1m") /\ call.a > PosEr) => call.ret = FP \div 5
    /\ (IsotropicCall("_F2m") /\ call.a > PosEr) => call.ret = (6 * FP) \div 15

\* F2 on an isotropic triplet above the threshold took the mask cond3.
C5_Witness ==
    /\ IsotropicCall("_F2m")
    /\ call.a = 2 * MaxEval
    /\ call.conds = {3}
    /\ call.ret = (6 * FP) \div 15

(***************************************************************************)
(* Properties of the kurtosis-maximum search, checked under SpecSearch.    *)
(***************************************************************************)
\* C8: when no local maximum is found the search returns at once the pair
\* (mean of the directional kurtosis over the vertices, zero vector), and no
\* refinement has run.
C8_NoMaximumReturnsMean ==
    /\ (km.pc = "done" /\ km.n = 0) =>
           /\ km.ret = <<Mean(km.akc, Len(km.sphere.vertices)), Zeros3>>
           /\ km.refined = 0
    /\ km.pc = "refine" => km.n > 0

\* A search with refinement enabled on a kurtosis that is not null found no
\* local maximum and returned the mean.
C8_Witness ==
    /\ km.pc = "done"
    /\ km.n = 0
    /\ km.gtol # None
    /\ km.ret[1] > 0
    /\ km.ret[2] = Zeros3

\* After a pass of the refinement loop, the best is the refined candidate
\* exactly when its value is strictly larger than the best before the pass.
ReplacedOnlyIfLarger ==
    (km.pc \in {"refine", "done"} /\ km.refined > 0) =>
        IF km.k_val > km.prev.max_value
        THEN km.max_value = km.k_val /\ km.max_direction = km.k_dir
        ELSE km.max_value = km.prev.max_value
             /\ km.max_direction = km.prev.max_direction

CoarseMaximum == MaxOf(km.akc, Len(km.sphere.vertices) - 1)

UnknownName(fit_method) ==
    /\ ~fit_method.callable
    /\ \A key \in DOMAIN common_fit_methods : key # upper(fit_method.name)

NonPositiveMinSignal(kwargs) ==
    /\ "min_signal" \in DOMAIN kwargs
    /\ kwargs["min_signal"] # None
    /\ Val(kwargs["min_signal"]) <= 0

\* C6: constructing the model with a fit method name that is not a known
\* one, or with a min_signal that is zero or negative, raises ValueError
\* before the design matrix is built, and leaves no object a fit could run
\* on; with min_signal absent or None the object built has the default
\* floor, which is positive.
C6_ConstructorRejects ==
    outcome.op = "__init__" =>
        /\ (UnknownName(outcome.fit_method)
            \/ NonPositiveMinSignal(outcome.kwargs)) =>
              /\ outcome.raised = Raise("ValueError")
              /\ \A i \in DOMAIN outcome.steps :
                    outcome.steps[i] # "design_matrix"
              /\ model = NoModel
              /\ ~ENABLED CallFit
              /\ ~ENABLED CallIterativeFit
        /\ (/\ outcome.raised = None
            /\ ("min_signal" \in DOMAIN outcome.kwargs
                    => outcome.kwargs["min_signal"] = None)) =>
              /\ model.min_signal = MIN_POSITIVE_SIGNAL
              /\ model.min_signal > 0

\* A known method with a floor of zero is refused.
C6_Witness ==
    /\ outcome.op = "__init__"
    /\ outcome.enough_b
    /\ ~UnknownName(outcome.fit_method)
    /\ "min_signal" \in DOMAIN outcome.kwargs
    /\ outcome.kwargs["min_signal"] = Some(0)
    /\ outcome.raised = Raise("ValueError")

\* The last call has run iterative_fit with this round count: by itself,
\* or through fit on an iteratively reweighted multi-voxel method.
RanIterativeFit(num_iter) ==
    \/ outcome.op = "iterative_fit" /\ outcome.num_iter = num_iter
    \/ /\ outcome.op = "fit"
       /\ outcome.path = "iterative_fit"
       /\ model.kwargs["num_iter"] = num_iter

\* C7: iterative_fit with a round count below 2 raises ValueError before
\* any call of multi_fit, predict or weights_method; with a round count of
\* 2 and a mask that fits the data it completes and returns diagnostics
\* whose key "robust" holds the robust mask: what weights_method returned
\* in round 2, written over the all-true mask when a mask was given.
C7_IterativeFitRounds ==
    /\ \A n \in 0..1 :
          RanIterativeFit(n) =>
              /\ outcome.raised = Raise("ValueError")
              /\ outcome.log = <<>>
    /\ (RanIterativeFit(2) /\ outcome.mask # Some("bad_shape")) =>
          /\ outcome.raised = None
          /\ outcome.extra # None
          /\ "robust" \in DOMAIN Val(outcome.extra)
          /\ Val(outcome.extra)["robust"].value
               = IF outcome.mask # None /\ outcome.choices[1] = None
                 THEN Some("all_true")
                 ELSE outcome.choices[1]
          /\ outcome.log = <<LogEntry("multi_fit", 1), LogEntry("predict", 2),
                             LogEntry("weights_method", 2),
                             LogEntry("multi_fit", 2)>>

\* Two rounds under a mask, with no rejection: the robust mask is all true.
C7_Witness ==
    /\ outcome.op = "iterative_fit"
    /\ outcome.num_iter = 2
    /\ outcome.mask = Some("ok")
    /\ outcome.raised = None
    /\ Val(outcome.extra)["robust"].value = Some("all_true")

\* C10: after any sequence of fit calls, the model object holds no
\* diagnostics written by a fit call.
C10_NoDiagnosticsOnModel ==
    model # NoModel => model.extra = NoKwargs

\* C10, as the code has it: the diagnostics a fit call returns are also
\* stored in the extra of the model, replacing it on the multi-voxel and
\* iterative paths and key by key on the other paths; a call that returns
\* none or raises leaves extra as the earlier calls left it.
C10_DiagnosticsKeptOnModel ==
    outcome.op = "fit" =>
        IF outcome.raised # None \/ outcome.extra = None
        THEN model.extra = outcome.before
        ELSE IF outcome.path \in {"multi_fit", "iterative_fit"}
        THEN model.extra = Val(outcome.extra)
        ELSE /\ DOMAIN model.extra
                  = DOMAIN Val(outcome.extra) \cup DOMAIN outcome.before
             /\ \A key \in DOMAIN model.extra :
                   model.extra[key]
                     = IF key \in DOMAIN Val(outcome.extra)
                       THEN Val(outcome.extra)[key]
                       ELSE outcome.before[key]

\* The diagnostics of the first fit are on the model after the second.
C10_Witness ==
    /\ ncalls = 2
    /\ outcome.op = "fit"
    /\ outcome.raised = None
    /\ \E key \in DOMAIN model.extra : model.extra[key].call = 1

C12_RfOfEqualArguments ==
    (/\ call.op = "carlson_rf"
     /\ call.x = call.y /\ call.y = call.z
     /\ call.x \notin {NaN, Some(0)}) =>
        /\ call.Q = Some(0)
        /\ call.n = 0
        /\ call.An = call.x
        /\ call.pc = "done" =>
              /\ call.post # NaN
              /\ \A k \in {"X", "Y", "Z", "E2", "E3"} : Val(call.post)[k] = 0
              /\ FMul(FMul(Val(call.post).RF, Val(call.post).RF),
                      Val(call.x)) = FP

\* carlson_rf(0.25, 0.25, 0.25) has returned 2.
C12_Witness ==
    /\ call.op = "carlson_rf"
    /\ call.pc = "done"
    /\ call.x = Some(FP \div 4) /\ call.y = call.x /\ call.z = call.x
    /\ Val(call.post).RF = 2 * FP

(***************************************************************************)
(* Properties of the packing and unpacking, checked under SpecPacking.     *)
(***************************************************************************)
RoundTrip == call.op = "params_to_dki_params" /\ call.packed # None

SameKurtosis ==
    \A i \in 0..14 : call.out.kt[i] = Some(Val(call.packed).kt[i])

\* C13, as stated: what was packed from a positive definite tensor and
\* kurtosis elements is unpacked to the same eigenvalues, the same
\* eigenvectors and the same 15 kurtosis elements, whatever the floor
\* min_diffusivity.
C13_RoundTripAnyFloor ==
    RoundTrip =>
        /\ call.out.evals = Val(call.packed).evals
        /\ call.out.evecs = Val(call.packed).evecs
        /\ SameKurtosis

\* C13, amended: when the floor min_diffusivity is not above the smallest
\* eigenvalue, what was packed is unpacked to the same eigenvalues, to
\* eigenvectors that give the same tensor with them, and to the same 15
\* kurtosis elements.
C13_RoundTripFloorBelowEvals ==
    (RoundTrip /\ call.min_diffusivity <= Val(call.packed).evals[2]) =>
        /\ call.out.evals = Val(call.packed).evals
        /\ lower_triangular(call.out.evecs, call.out.evals)
           = lower_triangular(Val(call.packed).evecs, Val(call.packed).evals)
        /\ SameKurtosis

\* An anisotropic tensor over the oblique basis with non-zero kurtosis came
\* back, the floor being its smallest eigenvalue.
C13_Witness ==
    /\ RoundTrip
    /\ call.min_diffusivity = Val(call.packed).evals[2]
    /\ Val(call.packed).evals[0] > Val(call.packed).evals[1]
    /\ Val(call.packed).evals[1] > Val(call.packed).evals[2]
    /\ Val(call.packed).evecs = ObliqueBasis
    /\ Val(call.packed).kt = KtOf(MixedShape, 1)
    /\ SameKurtosis

ClippedSum == call.out.evals[0] + call.out.evals[1] + call.out.evals[2]

\* C14: params_to_dki_params returns 15 zero kurtosis elements, without
\* dividing, when the mean of the clipped eigenvalues is zero; otherwise
\* each element is the raw entry over the square of the mean diffusivity
\* (the element times that square is the raw entry, to within the rounding
\* of the division); and S0 is exp(-intercept), so that S0 * exp(intercept)
\* is 1 to within 3 units of the fixed point in each factor, and S0 is
\* above 1 exactly when the intercept is negative.
C14_KurtosisOverSquaredMean ==
    call.op = "params_to_dki_params" =>
        /\ \A k \in 0..2 : call.out.evals[k] >= call.min_diffusivity
        /\ ClippedSum = 0 =>
              /\ ~call.out.divided
              /\ \A i \in 0..14 : call.out.kt[i] = Some(0)
        /\ ClippedSum # 0 =>
              /\ call.out.divided
              /\ \A i \in 0..14 :
                    /\ call.out.kt[i] # NaN
                    /\ Abs(Val(call.out.kt[i]) * ClippedSum ^ 2
                           - VDen ^ 2 * call.result.k[i]) < ClippedSum ^ 2
        /\ Abs(call.out.S0 * Exp(call.result.intercept) - FP ^ 2)
               <= 3 * (call.out.S0 + Exp(call.result.intercept))
        /\ (call.result.intercept < 0) = (call.out.S0 > FP)

\* A raw solution with a negative semi-definite tensor and non-zero raw
\* kurtosis entries was unpacked with the floor 0.
C14_Witness ==
    /\ call.op = "params_to_dki_params"
    /\ call.packed = None
    /\ ClippedSum = 0
    /\ call.result.dt[0] < 0
    /\ call.result.k[0] # 0
    /\ call.result.intercept = FP
    /\ ~call.out.divided

(***************************************************************************)
(* Properties of the constructor and of fit, checked under SpecModel.      *)
(***************************************************************************)
\* The names the docstring of __init__ gives for fit_method, each with the
\* strategy and the weighting it documents.
DocumentedFitMethods ==
    (<<"O", "L", "S">> :> [strategy |-> "ls_fit_dki", weights |-> FALSE])
    @@ (<<"U", "L", "L", "S">> :> [strategy |-> "ls_fit_dki", weights |-> FALSE])
    @@ (<<"W", "L", "S">> :> [strategy |-> "ls_fit_dki", weights |-> TRUE])
    @@ (<<"W", "L", "L", "S">> :> [strategy |-> "ls_fit_dki", weights |-> TRUE])
    @@ (<<"U", "W", "L", "L", "S">>
        :> [strategy |-> "ls_fit_dki", weights |-> TRUE])
    @@ (<<"C", "L", "S">> :> [strategy |-> "cls_fit_dki", weights |-> FALSE])
    @@ (<<"C", "W", "L", "S">> :> [strategy |-> "cls_fit_dki", weights |-> TRUE])

\* The constructor was just called with enough b-values, a documented name
\* and no keyword argument.
ConstructedByDocumentedName ==
    /\ outcome.op = "__init__"
    /\ outcome.enough_b
    /\ NameIn(outcome.fit_method, DOMAIN DocumentedFitMethods)
    /\ outcome.kwargs = NoKwargs

\* C15: every name the docstring of the constructor documents is accepted,
\* and selects the strategy and the weighting documented for it.
C15_DocumentedNamesAccepted ==
    ConstructedByDocumentedName =>
        /\ outcome.raised = None
        /\ model.fit_method
           = Some(DocumentedFitMethods[outcome.fit_method.name].strategy)
        /\ model.weights = DocumentedFitMethods[outcome.fit_method.name].weights

\* C16: a callable fit_method is kept by the constructor as the strategy of
\* the object, and a later fit calls it: the call does not end for want of
\* the attribute fit_method.
C16_CallableKeptAndInvoked ==
    (model # NoModel /\ ~model.common_fit_method) =>
        /\ model.fit_method # None
        /\ outcome.op = "fit" => outcome.raised # Raise("AttributeError")

(***************************************************************************)
(* Properties of the directional kurtosis, checked under SpecMetrics.      *)
(***************************************************************************)
\* apparent_kurtosis_coef returned for a voxel of positive eigenvalues.
AkcOfPositiveVoxel ==
    call.op = "apparent_kurtosis_coef" /\ ~Gated(call.dki_params)

\* The largest default of max_kurtosis among the metrics: 10.
LargestMaxKurtosis == 10 * FP

\* C17, as stated: the directional kurtosis apparent_kurtosis_coef returns
\* at each vertex, for a voxel of positive eigenvalues, lies between
\* min_kurtosis and max_kurtosis; directional_kurtosis having no argument
\* max_kurtosis, the upper bound is the largest default of the metrics.
C17_DirectionalKurtosisClampedBothSides ==
    AkcOfPositiveVoxel =>
        \A g \in DOMAIN call.ret :
            /\ call.min_kurtosis # None => call.ret[g] >= Val(call.min_kurtosis)
            /\ call.ret[g] <= LargestMaxKurtosis

\* C17, amended: the directional kurtosis apparent_kurtosis_coef returns at
\* each vertex, for a voxel of positive eigenvalues, is not below
\* min_kurtosis when that is given; it has no upper bound.
C17_DirectionalKurtosisNotBelowMin ==
    (AkcOfPositiveVoxel /\ call.min_kurtosis # None) =>
        \A g \in DOMAIN call.ret : call.ret[g] >= Val(call.min_kurtosis)

\* A directional kurtosis below the default min_kurtosis was raised to it at
\* one vertex, and is above it at another.
C17_Witness ==
    /\ AkcOfPositiveVoxel
    /\ call.min_kurtosis = Some(DefaultMinKurtosis)
    /\ \E g \in DOMAIN call.ret :
          /\ call.ret[g] = DefaultMinKurtosis
          /\ directional_diffusion_variance(call.dki_params.kt,
                                            call.sphere[g + 1]) < 0
    /\ \E g \in DOMAIN call.ret : call.ret[g] > DefaultMinKurtosis

\* The voxels of the data a fit of several voxels works on.
Marked(mask) == IF mask = Some("ok") THEN {1} ELSE DOMAIN outcome.data

\* C18: on every path of fit (multi_fit, iterative_fit, data of one voxel,
\* masked data) every signal array handed to the strategy holds, element by
\* element, the larger of the original signal and min_signal, and
\* min_signal is positive: no signal handed is zero or negative.  A fit
\* that raises nothing has handed some array.
C18_HandedSignalsClamped ==
    outcome.op = "fit" =>
        /\ model.min_signal > 0
        /\ outcome.raised = None => outcome.handed # {}
        /\ \A arr \in outcome.handed :
              /\ \A i \in DOMAIN arr : arr[i] > 0
              /\ IF outcome.ndim1
                 THEN /\ DOMAIN arr = DOMAIN outcome.data
                      /\ \A i \in DOMAIN arr :
                            arr[i] = Max2(outcome.data[i], model.min_signal)
                 ELSE IF outcome.path = "masked"
                 THEN /\ DOMAIN arr = 1..Cardinality(Marked(outcome.mask))
                      /\ \A i \in DOMAIN arr :
                            arr[i] = Max2(outcome.data[i], model.min_signal)
                 ELSE \E i \in Marked(outcome.mask) :
                         arr = <<Max2(outcome.data[i], model.min_signal)>>

\* Each of the four paths has handed signals to the strategy, one of them
\* raised from a negative value to a min_signal above the default.
C18_WitnessPath(path) ==
    /\ outcome.op = "fit"
    /\ outcome.path = path
    /\ outcome.raised = None
    /\ model.min_signal > MIN_POSITIVE_SIGNAL
    /\ \E arr \in outcome.handed : arr[1] = model.min_signal

C18_Witness ==
    /\ C18_WitnessPath("masked")
    /\ outcome.mask = Some("ok")

\* The constructor was just called for CLS or CWLS with a convexity_level
\* and no other keyword argument.
ConstructedWithLevel ==
    /\ outcome.op = "__init__"
    /\ outcome.enough_b
    /\ NameIn(outcome.fit_method, {<<"C", "L", "S">>, <<"C", "W", "L", "S">>})
    /\ DOMAIN outcome.kwargs = {"convexity_level"}

GivenLevel == outcome.kwargs["convexity_level"]

\* convexity_level is 'full' or a positive even number.
FullOrPositiveEven(level) ==
    IF level.type = "str" THEN level.str = "full"
    ELSE level.int > 0 /\ level.int % 2 = 0

AboveMaximum(level) == level.type = "int" /\ level.int > 4

\* C19: for CLS and CWLS the constructor raises ValueError for every
\* convexity_level that is not 'full' or a positive even number (any other
\* string, odd, negative, zero); else it builds the object, with the level
\* given, or with 4 and a warning for an even level above 4.
C19_ConvexityLevelValidated ==
    ConstructedWithLevel =>
        IF FullOrPositiveEven(GivenLevel)
        THEN /\ outcome.raised = None
             /\ model.convexity_level
                = Some(IF AboveMaximum(GivenLevel) THEN IntLevel(4)
                       ELSE GivenLevel)
             /\ outcome.warned = AboveMaximum(GivenLevel)
        ELSE outcome.raised = Raise("ValueError")

(***************************************************************************)
(* Properties of the branches of the coefficient functions, checked under  *)
(* SpecCoefficients.                                                       *)
(***************************************************************************)
\* C20: for a triplet of values all above 2e-7, exactly one mask of _F1m,
\* _F2m, _G1m or _G2m holds: the masks are mutually exclusive and jointly
\* exhaustive, and no such triplet is left at the initial 0 for want of a
\* mask.
C20_ExactlyOneBranch ==
    (call.op \in CoefFunctions /\ _positive_evals(call.a, call.b, call.c))
    => Cardinality(call.conds) = 1

\* _G1m or _G2m was called on a triplet and on the triplet times 1 / den,
\* both above 2e-7.
ScaledAboveGate ==
    call.op = "scaled" /\ call.conds # {} /\ call.scaled_conds # {}

\* C21, as stated: multiplying a, b and c by one common positive factor,
\* all staying above 2e-7, never changes the branch of _G1m or _G2m.
C21_ScalingKeepsBranch ==
    ScaledAboveGate => call.scaled_conds = call.conds

\* C21, amended: the tolerance is absolute.  A triplet with b = c is in the
\* branch b == c under every factor, and a factor 1 / den <= 1 never moves
\* a triplet from the branch b == c to the generic one; it can move one
\* from the generic branch to the branch b == c.
C21_AbsoluteTolerance ==
    ScaledAboveGate =>
        /\ call.b = call.c => (call.conds = {2} /\ call.scaled_conds = {2})
        /\ call.conds = {2} => call.scaled_conds = {2}
        /\ call.scaled_conds = {1} => call.conds = {1}

\* b and c differ by 2e-11 on magnitude 5e-3: generic; multiplied by 1e-4
\* they are equal for _G1m.
C21_Witness ==
    /\ ScaledAboveGate
    /\ call.fn = "_G1m"
    /\ call.b # call.c
    /\ call.den > 1
    /\ call.conds = {1}
    /\ call.scaled_conds = {2}

(***************************************************************************)
(* kurtosis_fractional_anisotropy: the guards and the range                *)
(***************************************************************************)
KfaCalled == call.op = "kurtosis_fractional_anisotropy"

\* r is the square root of A / B to the resolution of the fixed point.
IsRootOfRatio(r, A, B) ==
    /\ r >= 0
    /\ r * r <= FDiv(A, B) * FP
    /\ (r + 1) * (r + 1) > FDiv(A, B) * FP

\* C26 as stated: kurtosis_fractional_anisotropy returns 0 when B is not
\* positive or the magnitude of W is below the tolerance, and the square root
\* of A / B otherwise, for a negative W above the tolerance in magnitude too.
C26_ZeroOnlyBelowMagnitude ==
    KfaCalled =>
        With(KfaTerms(call.dki_params), LAMBDA t :
            IF t.B <= 0 \/ Abs(t.W) = 0
            THEN call.ret = 0
            ELSE IsRootOfRatio(call.ret, t.A, t.B))

\* C26 amended: kurtosis_fractional_anisotropy returns 0 when B is not
\* positive or W itself is not above the tolerance, which covers every
\* negative W, and the square root of A / B otherwise.
C26_ZeroUnlessMeanAboveTolerance ==
    KfaCalled =>
        With(KfaTerms(call.dki_params), LAMBDA t :
            IF t.B <= 0 \/ t.W <= 0
            THEN call.ret = 0
            ELSE IsRootOfRatio(call.ret, t.A, t.B))

\* A tensor of negative mean and positive A and B, for which 0 is returned.
C26_Witness ==
    /\ KfaCalled
    /\ KfaTerms(call.dki_params).W < 0
    /\ KfaTerms(call.dki_params).A > 0
    /\ KfaTerms(call.dki_params).B > 0
    /\ call.ret = 0

\* The rounding of A and of B in units of the fixed point: under one unit for
\* each square they sum.
KfaRounding == 2 * (3 + 4 * 6 + 6 * 3 + 12 * 3)

\* C29: kurtosis_fractional_anisotropy returns a value in [0, 1]; A equals
\* B - 5 * W^2, and 0 <= A <= B whenever the ratio is taken.
C29_KfaWithinUnitInterval ==
    KfaCalled =>
        With(KfaTerms(call.dki_params), LAMBDA t :
            /\ call.ret >= 0
            /\ call.ret <= FP
            /\ Abs(t.A - (t.B - 5 * Sq(t.W))) <= KfaRounding
            /\ (t.B > 0 /\ t.W > 0) => (0 <= t.A /\ t.A <= t.B))

\* A tensor whose ratio is taken and lies strictly between 0 and 1.
C29_Witness ==
    /\ KfaCalled
    /\ KfaTerms(call.dki_params).B > 0
    /\ KfaTerms(call.dki_params).W > 0
    /\ call.ret > 0
    /\ call.ret < FP

(***************************************************************************)
(* iterative_fit: the calls of the rounds and the arrays under a mask      *)
(***************************************************************************)
\* iterative_fit was called by itself and returned.
IterativeFitReturned ==
    /\ outcome.op = "iterative_fit"
    /\ outcome.raised = None

\* The voxels the weights are computed for in the last call.
OutcomeCond ==
    IF outcome.mask = None THEN 1..outcome.nvoxels ELSE {1}

\* The robust flag of a voxel of the mask after the rounds before rdx: what
\* the last robust mask returned before rdx set, else what round 2 set.
RobustBefore(rdx) ==
    LET Q == {q \in 2..(rdx - 1) : outcome.choices[q - 1] # None}
        last == CHOOSE q \in Q : \A o \in Q : o <= q
    IN  IF Q = {} THEN Made("robust[cond] = 1", 2)
        ELSE Made(Val(outcome.choices[last - 1]), last)

\* The argument robust of weights_method in round rdx.
RobustHanded(rdx) ==
    IF outcome.mask # None THEN [i \in OutcomeCond |-> RobustBefore(rdx)]
    ELSE IF rdx = 2 \/ outcome.choices[rdx - 2] = None THEN <<>>
    ELSE [i \in OutcomeCond |->
             Made(Val(outcome.choices[rdx - 2]), rdx - 1)]

C23_FullSizedArraysUnderMask ==
    (IterativeFitReturned /\ outcome.mask # None) =>
        With(outcome.arrays, LAMBDA arrays :
        /\ DOMAIN arrays.w = 1..outcome.nvoxels
        /\ DOMAIN arrays.robust = 1..outcome.nvoxels
        /\ \A i \in (1..outcome.nvoxels) \ OutcomeCond :
              /\ arrays.w[i] = Made("ones_like", 2)
              /\ arrays.robust[i] = Made("zeros_like", 2)
              /\ \A k \in DOMAIN arrays.calls :
                    (arrays.calls[k].fn = "multi_fit"
                     /\ arrays.calls[k].rdx >= 2) =>
                        arrays.calls[k].array[i] = Made("ones_like", 2)
        /\ \A i \in OutcomeCond :
              /\ arrays.calls[3].robust[i] = Made("robust[cond] = 1", 2)
              /\ arrays.robust[i] = RobustBefore(outcome.num_iter + 1)
              /\ (\A r \in 2..outcome.num_iter :
                     outcome.choices[r - 1] = None) =>
                        arrays.robust[i] = Made("robust[cond] = 1", 2))

\* Three rounds under a mask: round 2 returns no robust mask, round 3 one.
C23_Witness ==
    /\ IterativeFitReturned
    /\ outcome.mask # None
    /\ outcome.num_iter = 3
    /\ outcome.choices[1] = None
    /\ outcome.choices[2] # None
    /\ outcome.arrays.robust[1] = Made("rejects", 3)
    /\ outcome.arrays.robust[2] = Made("zeros_like", 2)

(***************************************************************************)
(* ls_fit_dki and cls_fit_dki: the leverages                               *)
(***************************************************************************)
\* The inverse the solution of the routine is computed with.
InverseInEffect(weights) ==
    IF weights = "False" THEN <<"inverse_design_matrix">>
    ELSE <<"pinv(W A) W", SqrtWeights(weights)>>

\* The last call ran a least-squares routine through multi_fit on data and
\* a mask that fit.
FitRanLeastSquares ==
    /\ outcome.op = "fit"
    /\ outcome.path = "multi_fit"
    /\ outcome.mask # Some("bad_shape")

\* C24: ls_fit_dki and cls_fit_dki, with weights False, True or an array,
\* return with return_leverages a mapping that holds one leverage for each
\* observation, the diagonal of design_matrix times the inverse in effect,
\* and None without return_leverages; no combination raises.
C24_LeveragesForEveryChoice ==
    /\ outcome.op = "least_squares" =>
          /\ outcome.raised = None
          /\ outcome.leverages
               = IF outcome.return_leverages
                 THEN Some("leverages"
                           :> Einsum(outcome.g,
                                     InverseInEffect(outcome.weights)))
                 ELSE None
    /\ FitRanLeastSquares => outcome.raised = None

(***************************************************************************)
(* Wrotate in the identity basis                                           *)
(***************************************************************************)
\* C25: Wrotate of kt in the identity basis is kt, every one of the 15
\* elements in its own slot.
C25_IdentityBasisKeepsSlots ==
    (call.op = "Wrotate" /\ call.B = CanonicalBasis) =>
        /\ DOMAIN call.ret = 0..14
        /\ \A e \in 0..14 : call.ret[e] = call.kt[e]

\* A tensor of 15 different elements through the identity basis.
C25_Witness ==
    /\ call.op = "Wrotate"
    /\ call.B = CanonicalBasis
    /\ Cardinality({call.kt[e] : e \in 0..14}) = 15
    /\ call.ret = call.kt

(***************************************************************************)
(* kurtosis_maximum on a volume                                            *)
(***************************************************************************)
\* kurtosis_maximum returned an array for a volume.
VolumeSearched == km.pc = "returned" /\ km.raised = None

\* C27: kurtosis_maximum searches a voxel exactly when the mask of the
\* caller selects it (every voxel for no mask) and its three eigenvalues are
\* above 2e-7; any other voxel has the value 0 and is not searched; what the
\* search of a voxel returns is stored at the index of that voxel and is a
\* maximum of the parameters of that voxel.
C27_SearchedIffMaskedAndPositive ==
    VolumeSearched =>
        \A idx \in DOMAIN km.volume :
            With(km.volume[idx], LAMBDA v :
            With(/\ km.mask = None \/ Val(km.mask)[idx]
                 /\ v.evals[0] > PosEr /\ v.evals[1] > PosEr
                 /\ v.evals[2] > PosEr, LAMBDA wanted :
            /\ Cardinality({k \in DOMAIN km.searched : km.searched[k] = idx})
                 = IF wanted THEN 1 ELSE 0
            /\ ~wanted => km.kt_max[idx] = 0
            /\ wanted =>
                  km.kt_max[idx] \in VoxelMaxima(v, km.sphere, km.gtol)))

\* A volume of two voxels selected by the mask, one of them with an
\* eigenvalue at the threshold: it is passed over, the other one is
\* searched and its maximum is not that of the first.
C27_Witness ==
    /\ VolumeSearched
    /\ km.mask = Some([idx \in 1..VolumeSize |-> TRUE])
    /\ km.volume[1].evals[2] = PosEr
    /\ km.searched = <<2>>
    /\ km.kt_max[1] = 0
    /\ km.kt_max[2] > 0
    /\ km.kt_max[2] \notin VoxelMaxima(km.volume[1], km.sphere, km.gtol)

(***************************************************************************)
(* TabManager.syncronize_slices, checked under SpecTabs                    *)
(***************************************************************************)
Synchronized == manager # NoManager /\ manager.last # NoSync

\* The tab at position i is a slices tab other than the active one.
OtherSlicesTab(i) ==
    /\ manager.last.before[i].tab_type = SLICES_TAB
    /\ manager.last.before[i].tab_id # manager.last.active_tab_id

\* C28: syncronize_slices updates no tab when the synchronization is off;
\* when it is on, update_slices(x, y, z) is called once, in the order of
\* the list of tabs, on each slices tab whose tab_id is not active_tab_id,
\* and on no other tab.
C28_OnlyOtherSlicesTabsUpdated ==
    Synchronized =>
        With(manager.last, LAMBDA last :
        IF ~manager._synchronize_slices
        THEN last.updated = <<>> /\ manager._tabs = last.before
        ELSE /\ \A i \in DOMAIN last.before :
                   /\ Cardinality({k \in DOMAIN last.updated :
                                      last.updated[k]
                                        = last.before[i].tab_id})
                        = IF OtherSlicesTab(i) THEN 1 ELSE 0
                   /\ manager._tabs[i]
                        = IF OtherSlicesTab(i)
                          THEN [last.before[i] EXCEPT !.slices = last.slices]
                          ELSE last.before[i]
             /\ \A k, l \in DOMAIN last.updated :
                   k < l => last.updated[k] < last.updated[l]
             /\ DOMAIN manager._tabs = DOMAIN last.before)

\* Three slices tabs, the second one active: the first and the third are
\* updated in this order, the second keeps its slices.
C28_Witness ==
    /\ Synchronized
    /\ manager._synchronize_slices
    /\ Len(manager._tabs) = 3
    /\ \A i \in 1..3 : manager._tabs[i].tab_type = SLICES_TAB
    /\ manager.last.active_tab_id = 1
    /\ manager.last.updated = <<0, 2>>
    /\ manager._tabs[2].slices # manager.last.slices
    /\ manager._tabs[3].slices = manager.last.slices

(***************************************************************************)
(* The spelling of the name of the fit method                              *)
(***************************************************************************)
\* The object the constructor builds for the name in upper case, with the
\* other arguments of the last call.
BuiltInUpperCase ==
    DiffusionKurtosisModel__init__(
        outcome.enough_b,
        [outcome.fit_method EXCEPT !.name = upper(@)],
        outcome.kwargs)

\* C30: a name of a fit method that the constructor accepts gives, in any
\* case of its letters, the configuration of the name in upper case: the
\* same strategy, weights flag, convexity flag and multi-voxel flag.
C30_SameConfigurationInAnyCase ==
    (/\ outcome.op = "__init__"
     /\ outcome.raised = None
     /\ ~outcome.fit_method.callable) =>
        With(BuiltInUpperCase, LAMBDA built :
        /\ built.raised = None
        /\ model.fit_method = built.self.fit_method
        /\ model.weights = built.self.weights
        /\ model.convexity_constraint = built.self.convexity_constraint
        /\ model.is_multi_method = built.self.is_multi_method)

====
